---- MODULE Spec2Model ----
(***************************************************************************)
(* A model of the pylar broker (src/pylar/broker.py) together with the     *)
(* parts of the peer protocol engine (src/pylar/generic_client.py) and of  *)
(* the closable lifecycle (src/pylar/async_object.py) that the broker's    *)
(* connections are built from.                                             *)
(*                                                                         *)
(* A broker-side Connection object is named <<identity, n>>: the n-th       *)
(* object constructed for that remote identity.  The broker holds at most  *)
(* one object per identity at a time, so the per-connection state is kept  *)
(* per identity and describes the latest object.                           *)
(* One action models one inbound frame: the broker's receiving loop, the   *)
(* connection's receiving loop and the handler task up to its first        *)
(* suspension on a pending-request future.                                 *)
(*                                                                         *)
(* The client side (src/pylar/client.py, src/pylar/client_proxy.py) is a   *)
(* second part of the state: the register loops of the proxies of one      *)
(* Client and its ping loop, with the broker as their environment.         *)
(***************************************************************************)
EXTENDS Integers, Sequences, FiniteSets, TLC

\* ------------------------------------------------------------------ bounds
\* remote identities
NumPeers == 3

\* the remote identities that take part in the two-party scenarios
NumActive == 2

\* Connection objects constructed per identity
MaxGen == 2

\* request ids drawn from the counter of one Connection object
MaxReqId == 2

\* handler tasks waiting for a reply at one time, over all connections
MaxTasks == 2

\* clock ticks in one period of the dying timer of a Connection
TimeoutTicks == 2

\* ClientProxy objects of the client
NumProxies == 2

\* broker instances the client gets to talk to (restarts + 1)
MaxUid == 2

\* consecutive failed registration attempts that are counted
MaxFailures == 12

\* --------------------------------------------------------------- constants
SERVICE_AUTHENTICATION_DOMAIN == "service/authentication"
SERVICE_LINK_DOMAIN == "service/link"
ECHO == "service/echo"
BOB == "user/bob"

Domains == {SERVICE_AUTHENTICATION_DOMAIN, SERVICE_LINK_DOMAIN, ECHO, BOB}

Identities == 1 .. NumPeers

\* The peers of the scenarios between two parties.
Pair == 1 .. NumActive

\* The domains a peer registers and calls from: one peer runs the
\* authentication service, one the link service, the others are users; each
\* of them also runs a replica of an ordinary service.
Serves(ident) ==
    CASE ident = 1 -> {SERVICE_AUTHENTICATION_DOMAIN, ECHO}
      [] ident = 2 -> {SERVICE_LINK_DOMAIN, ECHO, BOB}
      [] OTHER -> {BOB, ECHO}

\* The domains requests, queries and notifications are addressed to.
Targets == {ECHO, BOB}

\* b'' (the token of a service registration) and Python's None
EMPTY == ""
NONE == "None"

\* The payload frames a caller appends to a request: a command and one argument.
Args == <<"method_call", "a">>

\* bytes.startswith(Broker.SERVICE_DOMAIN_PREFIX), with SERVICE_DOMAIN_PREFIX = b'service'
startswith_service(domain) ==
    domain \in {SERVICE_AUTHENTICATION_DOMAIN, SERVICE_LINK_DOMAIN, ECHO}

\* service_name[service_name.index(b'/') + 1:], then identifier[:16]
\* (every identifier of the model is shorter than 16 bytes)
identifier16(domain) ==
    CASE domain = SERVICE_AUTHENTICATION_DOMAIN -> 1
      [] domain = SERVICE_LINK_DOMAIN -> 2
      [] domain = ECHO -> 3
      [] OTHER -> 4

\* ------------------------------------------------------------- credentials
\* The broker's shared secret and a wrong one, as key numbers.
shared_secret == 7
wrong_secret == shared_secret - 2

\* The keyed, salted, personalized hash, as an injective function of its inputs
\* into one "byte" (salt is a sequence of bytes 0..1).
generate_hash(secret, salt, identifier) ==
    LET s == IF salt = <<>> THEN 0 ELSE 1 + salt[1]
    IN  <<secret * 100 + identifier * 10 + s>>

verify_hash(secret, salt, identifier, hash) ==
    hash = generate_hash(secret, salt, identifier)

\* Python slicing b[lo:hi] (0-based, clamped) of a sequence.
slice(b, lo, hi) ==
    LET h == IF hi > Len(b) THEN Len(b) ELSE hi
    IN  IF lo >= h THEN <<>> ELSE SubSeq(b, lo + 1, h)

\* A verifier that accepts everything.
verify_service_credentials_bad(service_name, credentials) ==
    TRUE

\* Broker.__verify_service_credentials; FALSE also when struct.unpack raises
\* (the caller distinguishes the two by Malformed).
verify_service_credentials(service_name, credentials) ==
    LET salt_len == credentials[1]
        salt == slice(credentials, 1, salt_len + 1)
        hash == slice(credentials, salt_len + 1, Len(credentials))
    IN  verify_hash(shared_secret, salt, identifier16(service_name), hash)

\* credentials[0:1] is empty: struct.unpack raises struct.error
Malformed(credentials) == credentials = <<>>

\* What a service client sends: len(salt) as one byte, the salt, the hash.
make_credentials(secret, salt, domain) ==
    <<Len(salt)>> \o salt \o generate_hash(secret, salt, identifier16(domain))

\* The credentials a peer may present for a domain.
Credentials(domain) ==
    { make_credentials(shared_secret, <<1>>, domain) }
    \cup { make_credentials(wrong_secret, <<0>>, domain) }
    \cup { make_credentials(shared_secret, <<0>>,
                            IF domain = ECHO THEN SERVICE_LINK_DOMAIN ELSE ECHO) }
    \cup { <<>> }

\* What a user client sends; the authentication service alone interprets it.
Passwords == {"password"}

\* ------------------------------------------------------------------- state
VARIABLES
    broker,                 \* Broker lifecycle: "running", "closing", "stopped"
    gen,                    \* per identity, the Connection objects constructed
    phase,                  \* AsyncObject lifecycle of the latest object
    domains,                \* Connection.domains: domain -> token
    reqgen,                 \* GenericClient.__request_id_generator: next value
    pending,                \* GenericClient.__pending_requests: id -> waiting task
    connections,            \* Broker.__connections: identity -> object (NoConn: absent)
    connections_by_domain,  \* Broker.__connections_by_domain: domain -> deque
    round,                  \* per domain, who was served in the current round
    issued,                 \* per identity and domain, the token of the last
                            \* 200 reply to a register of the latest object
    pings,                  \* <<Connection object, id>> of every ping reply
    ev,                     \* the frames in and out of the last step
    timeout,                \* Connection.__timeout: ticks since it was started
                            \* or revived
    silence                 \* per identity, ticks since its last frame arrived

\* The client side: one Client and its ClientProxy objects.
VARIABLES
    proxy_token,            \* ClientProxy.__token of each proxy (NONE: None)
    register_loop,          \* where the __register_loop of each proxy stands
    delay,                  \* the local `delay` of each __register_loop
    ping_loop,              \* where Client.__ping_loop stands
    closing,                \* AsyncObject._closing of the Client
    failures,               \* per proxy, its consecutive failed attempts
    remote,                 \* the broker the client talks to: its instance and
                            \* the proxies it holds a registration for
    cev                     \* what the last step of the client did

clientvars == <<proxy_token, register_loop, delay, ping_loop, closing,
                failures, remote, cev>>

\* The engine in detail: the receiving queue of a Connection and the handler
\* tasks on the event loop.
VARIABLES
    queue,                  \* Connection.__queue: the frames put and not yet read
    ready,                  \* the tasks the event loop has scheduled and not
                            \* yet started, in the order of their scheduling
    arrived,                \* per identity, the frames received from the peer
    handed,                 \* per identity, the frames handed to
                            \* _on_request / _on_notification
    active,                 \* the frames whose handler has not ended
    replied,                \* per identity, the ids of the responses written
    obj,                    \* one AsyncObject: _closing, _cleanup_functions,
                            \* where its _close task stands, its tasks
    writing                 \* per identity, the requests _request has written
                            \* to the peer and not yet entered in
                            \* __pending_requests: id -> waiting task

ordervars == <<queue, ready, arrived, handed, active, replied>>

loopvars == <<ordervars, obj, writing>>

vars == <<broker, gen, phase, domains, reqgen, pending,
          connections, connections_by_domain, round, issued, pings, ev,
          timeout, silence, clientvars, loopvars>>

\* Phases of the latest Connection object of an identity:
\*   "none"     no object was constructed yet
\*   "open"     _closing is not set
\*   "closing"  close() was called and _close() ran its first cleanup
\*              function, cancel_pending_requests; it awaits the tasks
\*   "closed"   the tasks are cancelled and __remove_connection has run
\* ----------------------------------------------------------------- helpers
\* f with key k removed / set
Without(f, k) == [x \in DOMAIN f \ {k} |-> f[x]]

With(f, k, v) == [x \in DOMAIN f \cup {k} |-> IF x = k THEN v ELSE f[x]]

EmptyMap == [x \in {} |-> 0]

Elems(q) == { q[i] : i \in 1 .. Len(q) }

\* A removal that moves the last member into the place of the one removed.
deque_remove_bad(q, x) ==
    IF x \notin Elems(q) THEN q
    ELSE LET i == CHOOSE k \in 1 .. Len(q) : q[k] = x
         IN  [k \in 1 .. Len(q) - 1 |-> IF k = i THEN q[Len(q)] ELSE q[k]]

\* deque.remove(x): removes the first occurrence
RECURSIVE deque_remove(_, _)
deque_remove(q, x) ==
    IF q = <<>> THEN <<>>
    ELSE IF Head(q) = x THEN Tail(q)
    ELSE <<Head(q)>> \o deque_remove(Tail(q), x)

\* deque.rotate(-1)
rotate(q) == IF q = <<>> THEN q ELSE Tail(q) \o <<Head(q)>>

NoDuplicates(q) == \A i, j \in 1 .. Len(q) : q[i] = q[j] => i = j

\* source_token or b''
or_empty(token) == IF token = NONE \/ token = EMPTY THEN EMPTY ELSE token

\* dict.get(key): None when absent
dict_get(d, k) == IF k \in DOMAIN d THEN d[k] ELSE NONE

\* "no Connection object": the None of dict.get and of __get_connection_for
NoConn == <<0, 0>>

\* self.__connections_by_domain.get(domain), an absent entry read as empty
Lst(cbd, domain) == IF domain \in DOMAIN cbd THEN cbd[domain] ELSE <<>>

\* One id for the whole broker.
uid_bad(connection) == NoConn

\* Connection.uid = uuid4().bytes: a value no other Connection object has
uid(connection) == connection

\* A source-domain check that lets everything through.
registered_bad(connection_domains, domain) == TRUE

\* `domain in connection.domains`, the check of the source-domain
registered(connection_domains, domain) == domain \in DOMAIN connection_domains

\* The CallErrors the handlers raise, as <<code, message>>.
NotRegistered == <<412, "Not registered.">>

InternalError == <<500, "Internal error.">>

\* A miss that goes unnoticed and fails later.
NoSuchDomain_bad(target_domain) == InternalError

\* "No such domain: %s." % target_domain
NoSuchDomain(target_domain) ==
    <<404, <<"No such domain: ", target_domain, ".">>>>

AuthenticationUnavailable == <<503, "Authentication service unavailable.">>

InvalidSharedSecret == <<401, "Invalid shared secret.">>

BadRequest == <<400, "Bad request.">>

RequestTimedOut == <<408, "Request timed out.">>

\* errors.InvalidReplyError
InvalidReply == <<0, "The received reply is invalid.">>

\* ------------------------------------------------------------ the registry
\* The registry operations work on st = [cbd |-> __connections_by_domain,
\* domains |-> the domains table of the Connection object of every identity];
\* a Connection object is <<identity, n>>.

\* A registration that forgets the connection's own table.
register_connection_bad(st, connection, domain, token) ==
    [cbd |-> With(st.cbd, domain, Append(Lst(st.cbd, domain), connection)),
     domains |-> st.domains]

\* Broker.__register_connection
register_connection(st, connection, domain, token) ==
    [cbd |-> With(st.cbd, domain, Append(Lst(st.cbd, domain), connection)),
     domains |-> [st.domains EXCEPT ![connection[1]] = With(@, domain, token)]]

\* Broker.__unregister_connection raises KeyError or ValueError, before it
\* changes anything, unless the connection is listed under the domain.
can_unregister(st, connection, domain) ==
    /\ domain \in DOMAIN st.cbd
    /\ connection \in Elems(st.cbd[domain])

\* Broker.__unregister_connection, where it does not raise
unregister_connection(st, connection, domain) ==
    LET left == deque_remove(st.cbd[domain], connection)
    IN  [cbd |-> IF left = <<>> THEN Without(st.cbd, domain)
                 ELSE [st.cbd EXCEPT ![domain] = left],
         domains |-> [st.domains EXCEPT ![connection[1]] = Without(@, domain)]]

\* A registration that does not unregister first.
reregister_bad(st, connection, domain, token) ==
    register_connection(st, connection, domain, token)

\* Broker.__register_request, lines 471-474: unregister first when the
\* connection already serves the domain, then register.
reregister(st, connection, domain, token) ==
    register_connection(
        IF domain \in DOMAIN st.domains[connection[1]]
        THEN unregister_connection(st, connection, domain)
        ELSE st,
        connection, domain, token)

\* A registration that unregisters before it authenticates.
refused_bad(st, connection, domain) ==
    IF domain \in DOMAIN st.domains[connection[1]]
    THEN unregister_connection(st, connection, domain)
    ELSE st

\* Broker.__register_request where it raises (lines 438-469): the exception
\* leaves the handler before line 471, the registry is not touched.
refused(st, connection, domain) == st

\* Broker.__remove_connection, its loop over list(connection.domains)
RECURSIVE unregister_all(_, _, _)
unregister_all(st, connection, ds) ==
    IF ds = {} THEN st
    ELSE LET d == CHOOSE x \in ds : TRUE
         IN  unregister_all(unregister_connection(st, connection, d),
                            connection, ds \ {d})

\* A removal that leaves the registry alone.
remove_connection_bad(st, connection) == st

\* Broker.__remove_connection, lines 311-312: every domain of the
\* connection's table is unregistered.
remove_connection(st, connection) ==
    unregister_all(st, connection, DOMAIN st.domains[connection[1]])

\* Broker.__on_domain_available and __on_domain_unavailable log an event.
on_domain_available(domain) == <<"available", domain>>

on_domain_unavailable(domain) == <<"unavailable", domain>>

\* A registration that announces the domain whenever a connection joins.
register_events_bad(st, domain) == <<on_domain_available(domain)>>

\* The events of Broker.__register_connection (lines 320-323): the domain is
\* announced when its deque is empty before the connection is appended.
register_events(st, domain) ==
    IF Lst(st.cbd, domain) = <<>> THEN <<on_domain_available(domain)>>
    ELSE <<>>

\* The events of Broker.__unregister_connection (lines 343-345): the domain
\* is withdrawn when its deque is empty after the connection is removed.
unregister_events(st, connection, domain) ==
    IF deque_remove(st.cbd[domain], connection) = <<>>
    THEN <<on_domain_unavailable(domain)>>
    ELSE <<>>

\* The events of Broker.__register_request, lines 471-474.
reregister_events(st, connection, domain) ==
    IF domain \in DOMAIN st.domains[connection[1]]
    THEN unregister_events(st, connection, domain)
         \o register_events(unregister_connection(st, connection, domain),
                            domain)
    ELSE register_events(st, domain)

\* The events of Broker.__remove_connection, domain after domain as
\* unregister_all takes them.
RECURSIVE unregister_all_events(_, _, _)
unregister_all_events(st, connection, ds) ==
    IF ds = {} THEN <<>>
    ELSE LET d == CHOOSE x \in ds : TRUE
         IN  unregister_events(st, connection, d)
             \o unregister_all_events(
                    unregister_connection(st, connection, d),
                    connection, ds \ {d})

\* A lookup that falls back to the link service whatever allow_link says.
get_connection_for_bad(cbd, target_domain, allow_link) ==
    LET connections_ == Lst(cbd, target_domain)
        link_ == Lst(cbd, SERVICE_LINK_DOMAIN)
    IN  IF connections_ # <<>>
        THEN [conn |-> Head(connections_), found |-> TRUE, link |-> FALSE,
              cbd |-> [cbd EXCEPT ![target_domain] = rotate(connections_)],
              rotated |-> target_domain]
        ELSE IF link_ # <<>>
        THEN [conn |-> Head(link_), found |-> TRUE, link |-> TRUE,
              cbd |-> [cbd EXCEPT ![SERVICE_LINK_DOMAIN] = rotate(link_)],
              rotated |-> SERVICE_LINK_DOMAIN]
        ELSE [conn |-> NoConn, found |-> FALSE, link |-> FALSE,
              cbd |-> cbd, rotated |-> NONE]

\* Broker.__get_connection_for: the connection selected (NoConn: None), whether
\* it is wrapped in a LinkConnection, the registry after the rotation, and
\* the domain whose deque was rotated.
RECURSIVE get_connection_for(_, _, _)
get_connection_for(cbd, target_domain, allow_link) ==
    LET connections_ == Lst(cbd, target_domain)
    IN  IF connections_ # <<>>
        THEN [conn |-> Head(connections_), found |-> TRUE, link |-> FALSE,
              cbd |-> [cbd EXCEPT ![target_domain] = rotate(connections_)],
              rotated |-> target_domain]
        ELSE IF allow_link
        THEN LET r == get_connection_for(cbd, SERVICE_LINK_DOMAIN, FALSE)
             IN  [r EXCEPT !.link = r.found]
        ELSE [conn |-> NoConn, found |-> FALSE, link |-> FALSE,
              cbd |-> cbd, rotated |-> NONE]

\* A Connection that forwards the request without the caller's token.
request_frames_bad(domain, source_domain, source_token, args) ==
    <<domain, source_domain, EMPTY>> \o args

\* Connection.request: the frames handed to _request
request_frames(domain, source_domain, source_token, args) ==
    <<domain, source_domain, or_empty(source_token)>> \o args

\* A link connection that is handed the request as it came.
link_request_frames_bad(domain, source_domain, source_token, args) ==
    request_frames(domain, source_domain, source_token, args)

\* LinkConnection.request: the frames handed to _request
link_request_frames(domain, source_domain, source_token, args) ==
    request_frames(SERVICE_LINK_DOMAIN, source_domain, source_token,
                   <<"dispatch", domain>> \o args)

\* Connection.notification / LinkConnection.notification
notification_frames(domain, source_domain, source_token, type_, args) ==
    <<domain, source_domain, or_empty(source_token), type_>> \o args

link_notification_frames(domain, source_domain, source_token, type_, args) ==
    notification_frames(SERVICE_LINK_DOMAIN, source_domain, source_token,
                        "notification_dispatch", <<type_, domain>> \o args)

\* Broker.__process_request, the reply to b'ping'
ping_reply(connection) == <<uid(connection)>>

\* ---------------------------------------------------------- request engine
\* "no request id": the step handled no request frame
NoId == -1

\* The ids peers give their request and notification frames.  One peer has
\* two requests in flight, the others one at a time.
PeerIds(ident) == IF ident = NumPeers THEN {7, 8} ELSE {7}

\* How the coroutine _on_request ended: it returned a list of frames, raised
\* CallError(code, message), was cancelled, or raised anything else.
NoOutcome == [kind |-> "none", code |-> 0, payload |-> <<>>]

Return(payload) == [kind |-> "return", code |-> 0, payload |-> payload]

CallError(e) == [kind |-> "CallError", code |-> e[1], payload |-> <<e[2]>>]

Cancelled == [kind |-> "CancelledError", code |-> 0, payload |-> <<>>]

Failure == [kind |-> "Exception", code |-> 0, payload |-> <<>>]

\* The AssertionError of a failed assert statement, in a task that is not a
\* request handler.
NoActiveRequest == [kind |-> "AssertionError", code |-> 0, payload |-> <<>>]

\* A handler whose except clause for Exception also takes the cancellation.
process_request_bad(outcome) ==
    CASE outcome.kind = "return" -> <<200, outcome.payload>>
      [] outcome.kind = "CallError" -> <<outcome.code, outcome.payload>>
      [] OTHER -> <<InternalError[1], <<InternalError[2]>>>>

\* GenericClient.__process_request: the code and the frames after it in the
\* response written for an outcome of _on_request.
process_request(outcome) ==
    CASE outcome.kind = "return" -> <<200, outcome.payload>>
      [] outcome.kind = "CallError" -> <<outcome.code, outcome.payload>>
      [] outcome.kind = "CancelledError" ->
            <<RequestTimedOut[1], <<RequestTimedOut[2]>>>>
      [] OTHER -> <<InternalError[1], <<InternalError[2]>>>>

\* A handler that answers with the id of its own outbound request.
response_id_bad(request_id, allocated) == allocated

\* GenericClient.__process_request: the id of the response is the request_id
\* the task was created with, whatever id _request allocated on the way.
response_id(request_id, allocated) == request_id

\* ------------------------------------------------------------ bookkeeping
\* The record of the last step: the command handled (op) and the id of the
\* request or notification frame it came in (rid); how the handler ended
\* (outcome); the response written to the connection that sent the request
\* (sent, code, reply) and the ids of the responses written in the step
\* (ids); the domain events the broker logged in the step (log); the exception raised where no response is written (code with
\* sent = FALSE); the frames written to another Connection (to, frames) and
\* the id they are sent under (wid).
Ev(op, sent, code, reply, to, frames) ==
    [op |-> op, sent |-> sent, code |-> code, reply |-> reply, to |-> to,
     frames |-> frames, outcome |-> NoOutcome, rid |-> NoId, ids |-> {},
     wid |-> NoId, log |-> <<>>]

\* The handler of the request frame `rid` ended within the step: the response
\* for its outcome is written.
Answered(op, rid, outcome) ==
    LET r == process_request(outcome)
    IN  [op |-> op, sent |-> TRUE, code |-> r[1], reply |-> r[2],
         to |-> NoConn, frames |-> <<>>, outcome |-> outcome, rid |-> rid,
         ids |-> {response_id(rid, NoId)}, wid |-> NoId, log |-> <<>>]

\* Handlers suspended in earlier steps ended with the outcome: their
\* responses, with the ids in `ids`, are written.
Completed(op, ids, outcome) ==
    LET r == process_request(outcome)
    IN  [op |-> op, sent |-> TRUE, code |-> r[1], reply |-> r[2],
         to |-> NoConn, frames |-> <<>>, outcome |-> outcome, rid |-> NoId,
         ids |-> ids, wid |-> NoId, log |-> <<>>]

\* A task that answers an exception as the handler of a request does.
Raised_bad(op, rid, outcome) == Answered(op, rid, outcome)

\* An exception in a task that writes no response.
Raised(op, rid, outcome) ==
    [op |-> op, sent |-> FALSE, code |-> outcome.code,
     reply |-> outcome.payload, to |-> NoConn, frames |-> <<>>,
     outcome |-> outcome, rid |-> rid, ids |-> {}, wid |-> NoId,
     log |-> <<>>]

\* Nothing written back yet: the handler forwarded frames and is suspended.
Forwarded(op, rid, to, wid, frames) ==
    [op |-> op, sent |-> FALSE, code |-> 0, reply |-> <<>>, to |-> to,
     frames |-> frames, outcome |-> NoOutcome, rid |-> rid, ids |-> {},
     wid |-> wid, log |-> <<>>]

Quiet(op) == Ev(op, FALSE, 0, <<>>, NoConn, <<>>)

\* The step also logged the events `log` (ev.log, in the order logged).
Logged(e, log) == [e EXCEPT !.log = log]

\* The connections a domain's deque served in its current round: a round
\* starts when the domain's membership changes and after every Len(deque)
\* dispatches; a round in which every connection was served once is
\* forgotten.  Domains with a single connection have no rounds to speak of.
RoundServe(rd, cbd, domain, connection) ==
    LET n == Len(Lst(cbd, domain))
        base == IF Len(rd[domain]) >= n THEN <<>> ELSE rd[domain]
        served == Append(base, connection)
    IN  IF n < 2 \/ (Len(served) = n /\ NoDuplicates(served))
        THEN [rd EXCEPT ![domain] = <<>>]
        ELSE [rd EXCEPT ![domain] = served]

RoundReset(rd, ds) == [d \in Domains |-> IF d \in ds THEN <<>> ELSE rd[d]]

\* The registry as the registry operations take it.
St == [cbd |-> connections_by_domain, domains |-> domains]

\* ------------------------------------------------------------ inbound frames
\* Broker.__receiving_loop and __refresh_connection: the Connection object a
\* frame from `ident` is queued on, constructed if the identity is unknown.
New(ident) == connections[ident] = NoConn

ConnOf(ident) ==
    IF New(ident) THEN <<ident, gen[ident] + 1>> ELSE connections[ident]

\* The dying timer of the Connection of `ident` has run its full period: the
\* event loop calls its callback, Connection.close, before the receiving loop
\* gets to read a frame that arrives from then on.
Due(ident) ==
    /\ ~New(ident)
    /\ phase[ident] = "open"
    /\ timeout[ident] = TimeoutTicks

\* A receiving loop that awaits each handler instead of adding it as a task.
CanReceive_bad(ident) ==
    /\ broker # "stopped"
    /\ IF New(ident) THEN gen[ident] < MaxGen ELSE phase[ident] = "open"
    /\ ~Due(ident)
    /\ \A x \in Identities : \A k \in DOMAIN pending[x] :
          pending[x][k].from # ident

\* A Connection that is closing handles no more frames: its receiving loop and
\* every task added after close() are cancelled by run_until_closing.
CanReceive(ident) ==
    /\ broker # "stopped"
    /\ IF New(ident) THEN gen[ident] < MaxGen ELSE phase[ident] = "open"
    /\ ~Due(ident)

\* Broker.__add_connection constructs the object: GenericClient.__init__
\* gives it a request-id generator and an empty __pending_requests.
ReqgenAt(ident) ==
    IF New(ident) THEN [reqgen EXCEPT ![ident] = 0] ELSE reqgen

PendingAt(ident) ==
    IF New(ident) THEN [pending EXCEPT ![ident] = EmptyMap] ELSE pending

\* Connection.refresh() without the call of revive().
revive_bad(tm, ident) == tm

\* Connection.refresh(): AsyncTimeout.revive() starts the period again; a
\* Connection that is constructed starts its timer.
revive(tm, ident) == [tm EXCEPT ![ident] = 0]

Refreshed(ident) ==
    /\ CanReceive(ident)
    /\ gen' = [gen EXCEPT ![ident] = IF New(ident) THEN @ + 1 ELSE @]
    /\ phase' = [phase EXCEPT ![ident] = IF New(ident) THEN "open" ELSE @]
    /\ connections' = [connections EXCEPT ![ident] = ConnOf(ident)]
    /\ timeout' = IF New(ident) THEN [timeout EXCEPT ![ident] = 0]
                  ELSE revive(timeout, ident)
    /\ silence' = [silence EXCEPT ![ident] = 0]

\* Broker.__refresh_connection for a frame whose handler keeps to the
\* correlators: no request of a handler is between its write and its entry.
Refresh(ident) ==
    /\ Refreshed(ident)
    /\ UNCHANGED <<broker, clientvars, loopvars>>

\* The frame leaves the engine of `ident` as it was (or as constructed).
KeepEngines(ident) ==
    /\ reqgen' = ReqgenAt(ident)
    /\ pending' = PendingAt(ident)

\* GenericClient.__request_id on the Connection of identity `target`: the
\* value next() draws from the Connection's count().
next_request_id(rg, target) == rg[target]

\* A generator that hands out the same value again.
drawn_bad(rg, target) == rg

\* The generators after the Connection of `target` drew a value.
drawn(rg, target) == [rg EXCEPT ![target] = @ + 1]

\* GenericClient._request on the Connection of identity `target`, called by
\* the handler of a frame from `ident`: a fresh id, the frame written, the
\* future entered in __pending_requests.
Tasks(pnd) == { <<i, k>> \in Identities \X (0 .. MaxReqId) : k \in DOMAIN pnd[i] }

Pend(ident, target, waiter) ==
    /\ ReqgenAt(ident)[target] < MaxReqId
    /\ Cardinality(Tasks(PendingAt(ident))) < MaxTasks
    /\ reqgen' = drawn(ReqgenAt(ident), target)
    /\ pending' = [PendingAt(ident) EXCEPT
                     ![target] = With(@, next_request_id(ReqgenAt(ident),
                                                         target), waiter)]

\* command b'ping'
Ping(ident) ==
    \E rid \in PeerIds(ident) :
    LET c == ConnOf(ident) IN
    /\ Refresh(ident)
    /\ KeepEngines(ident)
    /\ ev' = Answered("ping", rid, Return(ping_reply(c)))
    /\ pings' = pings \cup {<<c, ping_reply(c)[1]>>}
    /\ UNCHANGED <<domains, connections_by_domain, round, issued>>

\* Broker.__process_request for a command that is neither b'ping' nor in
\* __command_handlers; `rest` are the frames after the command. The domain
\* is popped (line 390) before the command is looked up (line 391): without
\* a frame to pop, IndexError is raised and answered 500.
BadCommand(ident, rest) ==
    \E rid \in PeerIds(ident) :
    LET c == ConnOf(ident) IN
    /\ Refresh(ident)
    /\ KeepEngines(ident)
    /\ ev' = IF rest = <<>>
             THEN Answered("bad", rid, Failure)
             ELSE Answered("bad", rid, CallError(BadRequest))
    /\ UNCHANGED <<domains, connections_by_domain, round, issued, pings>>

\* Broker.__register_request for a service domain (lines 437-444, 471-476)
RegisterService(ident, domain, credentials) ==
    \E rid \in PeerIds(ident) :
    LET c == ConnOf(ident)
        st == reregister(St, c, domain, EMPTY)
        Reply(outcome) == Answered("register", rid, outcome)
    IN
    /\ startswith_service(domain)
    /\ Refresh(ident)
    /\ KeepEngines(ident)
    /\ UNCHANGED pings
    /\ IF Malformed(credentials)
       THEN /\ ev' = Reply(Failure)
            /\ UNCHANGED <<domains, connections_by_domain, round, issued>>
       ELSE IF ~verify_service_credentials(domain, credentials)
       THEN /\ ev' = Reply(CallError(InvalidSharedSecret))
            /\ connections_by_domain' = refused(St, c, domain).cbd
            /\ domains' = refused(St, c, domain).domains
            /\ UNCHANGED <<round, issued>>
       ELSE /\ connections_by_domain' = st.cbd
            /\ domains' = st.domains
            /\ round' = RoundReset(round, {domain})
            /\ ev' = Logged(Reply(Return(<<EMPTY>>)),
                            reregister_events(St, c, domain))
            /\ issued' = [issued EXCEPT ![ident] = With(@, domain, ev'.reply[1])]

\* Broker.__register_request for any other domain, up to the await of the
\* authenticate request (lines 445-469)
RegisterUser(ident, domain, credentials) ==
    \E rid \in PeerIds(ident) :
    LET c == ConnOf(ident)
        r == get_connection_for(connections_by_domain,
                                SERVICE_AUTHENTICATION_DOMAIN, TRUE)
        args == <<"authenticate", credentials>>
        token == dict_get(domains[ident], domain)
        frames == IF r.link
                  THEN link_request_frames(SERVICE_AUTHENTICATION_DOMAIN,
                                           domain, token, args)
                  ELSE request_frames(SERVICE_AUTHENTICATION_DOMAIN,
                                      domain, token, args)
    IN
    /\ ~startswith_service(domain)
    /\ Refresh(ident)
    /\ UNCHANGED <<domains, issued, pings>>
    /\ IF ~r.found
       THEN /\ ev' = Answered("register", rid, CallError(AuthenticationUnavailable))
            /\ KeepEngines(ident)
            /\ UNCHANGED <<connections_by_domain, round>>
       ELSE /\ Pend(ident, r.conn[1],
                    [from |-> ident, kind |-> "register", domain |-> domain,
                     rid |-> rid])
            /\ connections_by_domain' = r.cbd
            /\ round' = RoundServe(round, connections_by_domain,
                                   r.rotated, r.conn)
            /\ ev' = Forwarded("register", rid, r.conn,
                             next_request_id(ReqgenAt(ident), r.conn[1]),
                             frames)

\* Broker.__unregister_request
Unregister(ident, domain) ==
    \E rid \in PeerIds(ident) :
    LET c == ConnOf(ident)
        st == unregister_connection(St, c, domain)
    IN
    /\ Refresh(ident)
    /\ KeepEngines(ident)
    /\ UNCHANGED pings
    /\ IF can_unregister(St, c, domain)
       THEN /\ connections_by_domain' = st.cbd
            /\ domains' = st.domains
            /\ round' = RoundReset(round, {domain})
            /\ issued' = [issued EXCEPT ![ident] = Without(@, domain)]
            /\ ev' = Logged(Answered("unregister", rid, Return(<<>>)),
                            unregister_events(St, c, domain))
       ELSE /\ ev' = Answered("unregister", rid, Failure)
            /\ UNCHANGED <<domains, connections_by_domain, round, issued>>

\* Broker.__request_request, up to the await of the forwarded request
Request(ident, domain, target_domain) ==
    \E rid \in PeerIds(ident) :
    LET c == ConnOf(ident)
        r == get_connection_for(connections_by_domain, target_domain, TRUE)
        token == dict_get(domains[ident], domain)
        frames == IF r.link
                  THEN link_request_frames(target_domain, domain, token, Args)
                  ELSE request_frames(target_domain, domain, token, Args)
    IN
    /\ Refresh(ident)
    /\ UNCHANGED <<domains, issued, pings>>
    /\ IF ~registered(domains[ident], domain)
       THEN /\ ev' = Answered("request", rid, CallError(NotRegistered))
            /\ KeepEngines(ident)
            /\ UNCHANGED <<connections_by_domain, round>>
       ELSE IF ~r.found
       THEN /\ ev' = Answered("request", rid, CallError(NoSuchDomain(target_domain)))
            /\ KeepEngines(ident)
            /\ UNCHANGED <<connections_by_domain, round>>
       ELSE /\ Pend(ident, r.conn[1],
                    [from |-> ident, kind |-> "request", domain |-> NONE,
                     rid |-> rid])
            /\ connections_by_domain' = r.cbd
            /\ round' = RoundServe(round, connections_by_domain,
                                   r.rotated, r.conn)
            /\ ev' = Forwarded("request", rid, r.conn,
                             next_request_id(ReqgenAt(ident), r.conn[1]),
                             frames)

\* Broker.__request_request where GenericClient._request is suspended in
\* `await self.__send_request(request_id, frames)` (generic_client.py:75):
\* the id is drawn and the frame is on its way to the peer, the future is
\* not made yet.  writing[target] holds the handler by the id it drew.
WriteRequest(ident, domain, target_domain) ==
    \E rid \in PeerIds(ident) :
    LET r == get_connection_for(connections_by_domain, target_domain, TRUE)
        token == dict_get(domains[ident], domain)
        frames == IF r.link
                  THEN link_request_frames(target_domain, domain, token, Args)
                  ELSE request_frames(target_domain, domain, token, Args)
        request_id_ == next_request_id(ReqgenAt(ident), r.conn[1])
    IN
    /\ Refreshed(ident)
    /\ registered(domains[ident], domain)
    /\ r.found
    /\ ReqgenAt(ident)[r.conn[1]] < MaxReqId
    /\ reqgen' = drawn(ReqgenAt(ident), r.conn[1])
    /\ pending' = PendingAt(ident)
    /\ writing' = [writing EXCEPT
                     ![r.conn[1]] = With(@, request_id_,
                                         [from |-> ident, kind |-> "request",
                                          domain |-> NONE, rid |-> rid])]
    /\ connections_by_domain' = r.cbd
    /\ round' = RoundServe(round, connections_by_domain, r.rotated, r.conn)
    /\ ev' = Forwarded("write", rid, r.conn, request_id_, frames)
    /\ UNCHANGED <<broker, domains, issued, pings, clientvars, ordervars, obj>>

\* GenericClient._request resumes after the write (generic_client.py:77-83):
\* the future is made and entered in __pending_requests, whatever happened to
\* the Connection in between; the handler that called it is still running.
RecordRequest(target, k) ==
    /\ k \in DOMAIN writing[target]
    /\ phase[writing[target][k].from] = "open"
    /\ Cardinality(Tasks(pending)) < MaxTasks
    /\ pending' = [pending EXCEPT ![target] = With(@, k, writing[target][k])]
    /\ writing' = [writing EXCEPT ![target] = Without(@, k)]
    /\ ev' = Quiet("record")
    /\ UNCHANGED <<broker, gen, phase, domains, reqgen, connections,
                   connections_by_domain, round, issued, pings, timeout,
                   silence, clientvars, ordervars, obj>>

\* Broker.__query_request
Query(ident, domain, target_domain) ==
    \E rid \in PeerIds(ident) :
    LET c == ConnOf(ident)
        r == get_connection_for(connections_by_domain, target_domain, FALSE)
    IN
    /\ Refresh(ident)
    /\ KeepEngines(ident)
    /\ UNCHANGED <<domains, round, issued, pings>>
    /\ IF ~registered(domains[ident], domain)
       THEN /\ ev' = Answered("query", rid, CallError(NotRegistered))
            /\ UNCHANGED connections_by_domain
       ELSE IF ~r.found
       THEN /\ ev' = Answered("query", rid, CallError(NoSuchDomain(target_domain)))
            /\ UNCHANGED connections_by_domain
       ELSE /\ connections_by_domain' = r.cbd
            /\ ev' = Answered("query", rid, Return(<<>>))

\* Broker.__transmit_request, up to the await of the forwarded request
Transmit(ident, domain, target_domain, x_domain, x_token) ==
    \E rid \in PeerIds(ident) :
    LET c == ConnOf(ident)
        r == get_connection_for(connections_by_domain, target_domain, FALSE)
        frames == request_frames(target_domain, x_domain, x_token, Args)
    IN
    /\ Refresh(ident)
    /\ UNCHANGED <<domains, issued, pings>>
    /\ IF ~registered(domains[ident], domain)
       THEN /\ ev' = Answered("transmit", rid, CallError(NotRegistered))
            /\ KeepEngines(ident)
            /\ UNCHANGED <<connections_by_domain, round>>
       ELSE IF ~r.found
       THEN /\ ev' = Answered("transmit", rid, CallError(NoSuchDomain(target_domain)))
            /\ KeepEngines(ident)
            /\ UNCHANGED <<connections_by_domain, round>>
       ELSE /\ Pend(ident, r.conn[1],
                    [from |-> ident, kind |-> "request", domain |-> NONE,
                     rid |-> rid])
            /\ connections_by_domain' = r.cbd
            /\ round' = RoundServe(round, connections_by_domain,
                                   r.rotated, r.conn)
            /\ ev' = Forwarded("transmit", rid, r.conn,
                             next_request_id(ReqgenAt(ident), r.conn[1]),
                             frames)

\* Broker.__process_notification: type_ is the notification's type, or
\* b'transmit' followed by the type, x_domain and x_token.
Notification(ident, type_, domain, target_domain, x_domain, x_token) ==
    \E rid \in PeerIds(ident) :
    LET c == ConnOf(ident)
        r == get_connection_for(connections_by_domain, target_domain, TRUE)
        transmit == type_ = "transmit"
        t == IF transmit THEN "event" ELSE type_
        source_domain == IF transmit THEN x_domain ELSE domain
        source_token == IF transmit THEN x_token
                        ELSE dict_get(domains[ident], domain)
        frames == IF r.link
                  THEN link_notification_frames(target_domain, source_domain,
                                                source_token, t, Args)
                  ELSE notification_frames(target_domain, source_domain,
                                           source_token, t, Args)
        op == IF transmit THEN "transmit_notification" ELSE "notification"
    IN
    /\ Refresh(ident)
    /\ pending' = PendingAt(ident)
    /\ UNCHANGED <<domains, issued, pings>>
    /\ IF ~registered(domains[ident], domain)
       THEN /\ ev' = Raised(op, rid, CallError(NotRegistered))
            /\ reqgen' = ReqgenAt(ident)
            /\ UNCHANGED <<connections_by_domain, round>>
       ELSE IF ~r.found
       THEN /\ ev' = Raised(op, rid, CallError(NoSuchDomain(target_domain)))
            /\ reqgen' = ReqgenAt(ident)
            /\ UNCHANGED <<connections_by_domain, round>>
       ELSE /\ ReqgenAt(ident)[r.conn[1]] < MaxReqId
            /\ reqgen' = drawn(ReqgenAt(ident), r.conn[1])
            /\ connections_by_domain' = r.cbd
            /\ round' = RoundServe(round, connections_by_domain,
                                   r.rotated, r.conn)
            /\ ev' = Forwarded(op, rid, r.conn,
                             next_request_id(ReqgenAt(ident), r.conn[1]),
                             frames)

\* A correlator that hands the waiting handler the first frame of a reply.
process_response_bad(code, payload) ==
    IF code = 200 THEN Return(slice(payload, 0, 1))
    ELSE IF payload = <<>> THEN CallError(InvalidReply)
    ELSE CallError(<<code, payload[1]>>)

\* GenericClient.__process_response, as the handler that awaits the future
\* sees it: the frames after the code of a 200 reply are the result;
\* otherwise CallError(code, message) is raised with the frame after the code
\* as message, InvalidReplyError if there is none.  __request_request and
\* __transmit_request return the result as it is and let the error pass.
process_response(code, payload) ==
    IF code = 200 THEN Return(payload)
    ELSE IF payload = <<>> THEN CallError(InvalidReply)
    ELSE CallError(<<code, payload[1]>>)

\* GenericClient.__process_response for a pending request id, and the handler
\* task that was awaiting the future, to its end: Broker.__register_request
\* from line 461 on, or the return of __request_request / __transmit_request.
Response(ident, request_id, code, payload) ==
    LET w == pending[ident][request_id]
        caller == connections[w.from]
        st == reregister(St, caller, w.domain, payload[1])
        op == IF w.kind = "register" THEN "register_reply"
              ELSE "request_reply"
        Reply(outcome) ==
            Completed(op, {response_id(w.rid, request_id)}, outcome)
    IN
    /\ ~New(ident)
    /\ Refresh(ident)
    /\ request_id \in DOMAIN pending[ident]
    /\ pending' = [pending EXCEPT ![ident] = Without(@, request_id)]
    /\ UNCHANGED <<reqgen, pings>>
    /\ IF w.kind = "register" /\ code = 200 /\ Len(payload) = 1
       THEN /\ connections_by_domain' = st.cbd
            /\ domains' = st.domains
            /\ round' = RoundReset(round, {w.domain})
            /\ ev' = Logged(Reply(Return(<<payload[1]>>)),
                            reregister_events(St, caller, w.domain))
            /\ issued' = [issued EXCEPT
                             ![w.from] = With(@, w.domain, ev'.reply[1])]
       ELSE IF w.kind = "register" /\ code = 200
       THEN /\ ev' = Reply(Failure)
            /\ UNCHANGED <<domains, connections_by_domain, round, issued>>
       ELSE IF w.kind = "register"
       THEN /\ ev' = Reply(process_response(code, payload))
            /\ connections_by_domain' = refused(St, caller, w.domain).cbd
            /\ domains' = refused(St, caller, w.domain).domains
            /\ UNCHANGED <<round, issued>>
       ELSE /\ ev' = Reply(process_response(code, payload))
            /\ UNCHANGED <<domains, connections_by_domain, round, issued>>

\* GenericClient.__process_response for a request id that is not in
\* __pending_requests: __set_request_result or __set_request_exception fails
\* on `assert future`; the task ends with AssertionError, no future is
\* completed and no frame is written.
StrayResponse(ident, request_id, code, payload) ==
    /\ ~New(ident)
    /\ Refresh(ident)
    /\ request_id \notin DOMAIN pending[ident]
    /\ ev' = Raised("stray_response", NoId, NoActiveRequest)
    /\ UNCHANGED <<domains, reqgen, pending, connections_by_domain, round,
                   issued, pings>>

\* GenericClient.__heartbeat_loop of the Connection of `ident`: after the
\* ping interval, _ping draws an id and writes a ping frame to the peer.
Heartbeat(ident) ==
    /\ connections[ident] # NoConn
    /\ phase[ident] = "open"
    /\ reqgen[ident] < MaxReqId
    /\ reqgen' = drawn(reqgen, ident)
    /\ ev' = Forwarded("ping_sent", NoId, connections[ident],
                       next_request_id(reqgen, ident), <<>>)
    /\ UNCHANGED <<broker, gen, phase, domains, pending, connections,
                   connections_by_domain, round, issued, pings,
                   timeout, silence, clientvars, loopvars>>

\* ------------------------------------------------------------- lifecycle
\* AsyncObject.close() on a Connection: the dying timer fires (AsyncTimeout
\* callback) or the socket reports the connection lost; then _close resumes
\* and runs its first cleanup function, GenericClient.cancel_pending_requests:
\* every waiting handler gets CancelledError, answered 408 by its own engine.
\* (Nothing reads the closing flag between the two, so what happens between
\* them can as well happen before.)
\* The ids of the requests whose handlers wait for a reply from `ident`.
Waiting(pnd, ident) == { pnd[ident][k].rid : k \in DOMAIN pnd[ident] }

\* A cleanup that cancels the futures and leaves them in the correlator.
cancel_pending_requests_bad(pnd, ident) == pnd

cancel_pending_requests(pnd, ident) == [pnd EXCEPT ![ident] = EmptyMap]

Close(ident) ==
    /\ phase[ident] = "open"
    /\ phase' = [phase EXCEPT ![ident] = "closing"]
    /\ pending' = cancel_pending_requests(pending, ident)
    /\ ev' = IF DOMAIN pending[ident] # {}
             THEN Completed("close", Waiting(pending, ident), Cancelled)
             ELSE Quiet("close")
    /\ UNCHANGED <<broker, gen, domains, reqgen,
                   connections, connections_by_domain, round, issued, pings,
                   timeout, silence, clientvars, loopvars>>

\* AsyncObject._close, the rest: the tasks of the Connection are cancelled
\* (their futures on other connections with them), then
\* Broker.__remove_connection.
RemoveConnection(ident) ==
    LET c == connections[ident]
        st == remove_connection(St, c)
    IN
    /\ phase[ident] = "closing"
    /\ phase' = [phase EXCEPT ![ident] = "closed"]
    /\ pending' = [x \in Identities |->
                      [k \in {k \in DOMAIN pending[x] :
                                 pending[x][k].from # ident}
                          |-> pending[x][k]]]
    /\ connections_by_domain' = st.cbd
    /\ domains' = st.domains
    /\ connections' = [connections EXCEPT ![ident] = NoConn]
    /\ round' = RoundReset(round, DOMAIN domains[ident])
    /\ issued' = [issued EXCEPT ![ident] = EmptyMap]
    /\ ev' = Logged(Quiet("remove"),
                    unregister_all_events(St, c, DOMAIN domains[ident]))
    /\ UNCHANGED <<broker, gen, reqgen, pings, timeout, silence, clientvars,
                   loopvars>>

\* Broker.close() and force_disconnections: every connection of the map is
\* closed.
Shutdown ==
    /\ broker = "running"
    /\ broker' = "closing"
    /\ phase' = [i \in Identities |-> IF phase[i] = "open" THEN "closing"
                                      ELSE phase[i]]
    /\ pending' = [i \in Identities |-> IF phase[i] = "open" THEN EmptyMap
                                        ELSE pending[i]]
    /\ ev' = Quiet("shutdown")
    /\ UNCHANGED <<gen, domains, reqgen,
                   connections, connections_by_domain, round, issued, pings,
                   timeout, silence, clientvars, loopvars>>

\* The broker's receiving loop is cancelled.
StopReceiving ==
    /\ broker = "closing"
    /\ broker' = "stopped"
    /\ ev' = Quiet("stop")
    /\ UNCHANGED <<gen, phase, domains, reqgen, pending,
                   connections, connections_by_domain, round, issued, pings,
                   timeout, silence, clientvars, loopvars>>

\* ------------------------------------------------------------ dying timer
\* One tick of the clock: the timer of every open Connection and the silence
\* of its peer grow by one.  A timer that is due fires before time goes on.
Running(i) == connections[i] # NoConn /\ phase[i] = "open"

Tick ==
    /\ \A i \in Identities : ~Due(i)
    /\ \E i \in Identities : Running(i)
    /\ timeout' = [i \in Identities |->
                     IF Running(i) THEN timeout[i] + 1 ELSE timeout[i]]
    /\ silence' = [i \in Identities |->
                     IF Running(i) /\ silence[i] < TimeoutTicks
                     THEN silence[i] + 1 ELSE silence[i]]
    /\ ev' = Quiet("tick")
    /\ UNCHANGED <<broker, gen, phase, domains, reqgen, pending,
                   connections, connections_by_domain, round, issued, pings,
                   clientvars, loopvars>>

\* The AsyncTimeout of the Connection of `ident` calls its callback,
\* Connection.close.
Expire(ident) ==
    /\ Due(ident)
    /\ Close(ident)

\* ------------------------------------------------------------------ client
\* Client (src/pylar/client.py) with the ClientProxy objects it made in
\* add_registration.  The broker is the client's environment: it answers, or
\* not, and may be restarted.
\*
\* register_loop of a proxy:
\*   "wait_unregistered"  at `await self.wait_unregistered()`
\*   "registering"        awaiting the reply to its register request
\*   "abandoned"          the same, the connection having been reset since the
\*                        request was sent: only the timeout can end the wait
\*   "sleeping"           at `await asyncio.sleep(delay)` after a failure
\*   "cancelled"          the task was cancelled by the closing of the client
\* ping_loop: "wait" (about to ping), "pinging", "ping_lost" (the connection
\* was lost since the ping was sent), "sleeping", "cancelled".
Proxies == 1 .. NumProxies

ProxyDomain(p) ==
    CASE p = 1 -> BOB
      [] p = 2 -> ECHO
      [] OTHER -> SERVICE_AUTHENTICATION_DOMAIN

\* The tokens the broker answers a register with: a user's token, b'' for a
\* service.
ClientTokens == {"tok1", EMPTY}

min_delay == 1

max_delay == 60

\* A backoff without the cap.
backoff_bad(d) == (3 * d + 1) \div 2

\* delay = min(ceil(delay * factor), max_delay) with factor = 1.5
backoff(d) ==
    LET c == (3 * d + 1) \div 2 IN IF c < max_delay THEN c ELSE max_delay

\* What a step of the client did: the frames it wrote to the broker, the
\* seconds a register loop starts to sleep, whether the outgoing queues were
\* flushed, the uid of a ping reply.
CEv(op, p, sent, waited, flushed, broker_uid) ==
    [op |-> op, proxy |-> p, sent |-> sent, waited |-> waited,
     flushed |-> flushed, uid |-> broker_uid, callee |-> 0, source |-> <<>>,
     outcome |-> NoOutcome]

corevars == <<broker, gen, phase, domains, reqgen, pending, connections,
              connections_by_domain, round, issued, pings, ev,
              timeout, silence>>

BrokerVars == <<corevars, loopvars>>

\* A register loop that does not wait for the proxy to be unregistered.
wait_unregistered_bad(tokens, p) == TRUE

\* ClientProxy.wait_unregistered returns: the token setter set __unregistered
\* when it was given None and cleared it otherwise.
wait_unregistered(tokens, p) == tokens[p] = NONE

\* ClientProxy.wait_registered returns: __registered is set.
wait_registered(tokens, p) == tokens[p] # NONE

\* ClientProxy.__register_loop: the token is None, Client._register writes
\* the register request.
StartRegister(p) ==
    /\ ~closing
    /\ register_loop[p] = "wait_unregistered"
    /\ wait_unregistered(proxy_token, p)
    /\ register_loop' = [register_loop EXCEPT ![p] = "registering"]
    /\ cev' = CEv("register", p, <<"register", ProxyDomain(p)>>, 0, FALSE, 0)
    /\ UNCHANGED <<proxy_token, delay, ping_loop, closing, failures, remote>>
    /\ UNCHANGED BrokerVars

\* The broker registered the domain and its 200 reply arrives in time:
\* self.token = token, delay = min_delay.
RegisterReply(p, value) ==
    /\ register_loop[p] = "registering"
    /\ proxy_token' = [proxy_token EXCEPT ![p] = value]
    /\ delay' = [delay EXCEPT ![p] = min_delay]
    /\ failures' = [failures EXCEPT ![p] = 0]
    /\ register_loop' = [register_loop EXCEPT ![p] = "wait_unregistered"]
    /\ remote' = [remote EXCEPT !.holds = @ \cup {p}]
    /\ cev' = CEv("registered", p, <<>>, 0, FALSE, 0)
    /\ UNCHANGED <<ping_loop, closing>>
    /\ UNCHANGED BrokerVars

\* asyncio.TimeoutError after __registration_timeout, or an exception (an
\* error reply, a reply that is not one frame): the loop starts to sleep
\* `delay` seconds.
RegisterFails(p) ==
    /\ register_loop[p] \in {"registering", "abandoned"}
    /\ register_loop' = [register_loop EXCEPT ![p] = "sleeping"]
    /\ failures' = [failures EXCEPT
                      ![p] = IF @ < MaxFailures THEN @ + 1 ELSE @]
    /\ cev' = CEv("register_failed", p, <<>>, delay[p], FALSE, 0)
    /\ UNCHANGED <<proxy_token, delay, ping_loop, closing, remote>>
    /\ UNCHANGED BrokerVars

\* The sleep is over: delay = min(ceil(delay * factor), max_delay), and the
\* loop is back at wait_unregistered.
WakeUp(p) ==
    /\ register_loop[p] = "sleeping"
    /\ delay' = [delay EXCEPT ![p] = backoff(@)]
    /\ register_loop' = [register_loop EXCEPT ![p] = "wait_unregistered"]
    /\ cev' = CEv("retry", p, <<>>, 0, FALSE, 0)
    /\ UNCHANGED <<proxy_token, ping_loop, closing, failures, remote>>
    /\ UNCHANGED BrokerVars

\* Client.__ping_loop: __has_registrations is set, _ping writes the request.
PingStart ==
    /\ ~closing
    /\ ping_loop = "wait"
    /\ ping_loop' = "pinging"
    /\ cev' = CEv("ping", 0, <<"ping">>, 0, FALSE, 0)
    /\ UNCHANGED <<proxy_token, register_loop, delay, closing, failures,
                   remote>>
    /\ UNCHANGED BrokerVars

\* The reply arrives in time: _ping returns the round-trip time, the frames
\* of the reply are dropped; the loop sleeps __ping_interval.
PingReply ==
    /\ ping_loop = "pinging"
    /\ ping_loop' = "sleeping"
    /\ remote' = [remote EXCEPT !.seen = remote.uid]
    /\ cev' = CEv("pong", 0, <<>>, 0, FALSE, remote.uid)
    /\ UNCHANGED <<proxy_token, register_loop, delay, closing, failures>>
    /\ UNCHANGED BrokerVars

\* socket.reset_all(): the connection to the broker is reset.  A reply to a
\* request written before cannot arrive any more, and the broker holds no
\* registration for the new connection.
reset_all(loops) ==
    [p \in Proxies |-> IF loops[p] = "registering" THEN "abandoned"
                       ELSE loops[p]]

\* An implicit unregistration that clears no token.
implicit_unregistration_bad(tokens) == tokens

\* for client_proxy in self.__client_proxies.values():
\*     client_proxy.token = None
implicit_unregistration(tokens) == [p \in Proxies |-> NONE]

\* asyncio.TimeoutError after __ping_timeout, or an exception: the outgoing
\* queues are flushed, every token is set to None; the loop sleeps.
PingFails ==
    /\ ping_loop \in {"pinging", "ping_lost"}
    /\ ping_loop' = "sleeping"
    /\ register_loop' = reset_all(register_loop)
    /\ proxy_token' = implicit_unregistration(proxy_token)
    /\ remote' = [remote EXCEPT !.holds = {}]
    /\ cev' = CEv("ping_failed", 0, <<>>, 0, TRUE, 0)
    /\ UNCHANGED <<delay, closing, failures>>
    /\ UNCHANGED BrokerVars

\* await asyncio.sleep(self.__ping_interval) is over.
PingWake ==
    /\ ping_loop = "sleeping"
    /\ ping_loop' = "wait"
    /\ cev' = CEv("ping_wake", 0, <<>>, 0, FALSE, 0)
    /\ UNCHANGED <<proxy_token, register_loop, delay, closing, failures,
                   remote>>
    /\ UNCHANGED BrokerVars

\* The broker is restarted: the client's socket connects to the new
\* instance, which holds no registration and answers pings with another uid;
\* the requests in flight are lost.
BrokerRestart ==
    /\ remote.uid < MaxUid
    /\ remote' = [remote EXCEPT !.uid = @ + 1, !.holds = {}]
    /\ register_loop' = reset_all(register_loop)
    /\ ping_loop' = IF ping_loop = "pinging" THEN "ping_lost" ELSE ping_loop
    /\ cev' = CEv("broker_restart", 0, <<>>, 0, FALSE, 0)
    /\ UNCHANGED <<proxy_token, delay, closing, failures>>
    /\ UNCHANGED BrokerVars

\* Client.close(): run_until_closing cancels the tasks the client added, the
\* register loops and the ping loop.
CloseClient ==
    /\ ~closing
    /\ closing' = TRUE
    /\ register_loop' = [p \in Proxies |-> "cancelled"]
    /\ ping_loop' = "cancelled"
    /\ cev' = CEv("close", 0, <<>>, 0, FALSE, 0)
    /\ UNCHANGED <<proxy_token, delay, failures, remote>>
    /\ UNCHANGED BrokerVars

\* The commands of a proxy (ClientProxyMeta collects the methods decorated
\* with ClientProxy.command) and whether they take the caller's context.
Commands(q) == {"method_call"}

use_context(q, command) == q = 1

\* Client.get_client_proxy(domain): the proxy of this client that serves the
\* domain, None (0) if there is none.
get_client_proxy(domain) ==
    IF \E q \in Proxies : ProxyDomain(q) = domain
    THEN CHOOSE q \in Proxies : ProxyDomain(q) = domain
    ELSE 0

\* An on_request that hands the command its own proxy as the source.
on_request_bad(q, source_domain, source_token, command, args) ==
    IF command \notin Commands(q)
    THEN CallError(<<404, "Unknown command: %s.">>)
    ELSE Return((IF use_context(q, command)
                 THEN <<ProxyDomain(q), proxy_token[q]>> ELSE <<>>) \o args)

\* ClientProxy.on_request: an unknown command raises CallError(404); a known
\* one is called with the arguments, after a ClientContext of the source
\* domain and token if it asks for one.  The commands of the model return
\* what they are called with.
on_request(q, source_domain, source_token, command, args) ==
    IF command \notin Commands(q)
    THEN CallError(<<404, "Unknown command: %s.">>)
    ELSE Return((IF use_context(q, command)
                 THEN <<source_domain, source_token>> ELSE <<>>) \o args)

\* ClientProxy.request: once the proxy is registered, the request is made on
\* the local proxy that serves the target domain if there is one, and sent to
\* the broker otherwise.
ProxyRequest(p, target_domain, command) ==
    LET q == get_client_proxy(target_domain)
        local == [CEv("request", p, <<>>, 0, FALSE, 0) EXCEPT
                    !.callee = q,
                    !.source = <<ProxyDomain(p), proxy_token[p]>>,
                    !.outcome = on_request(q, ProxyDomain(p), proxy_token[p],
                                           command, Args)]
        remotely == CEv("request", p,
                        <<"request", ProxyDomain(p), target_domain, command>>,
                        0, FALSE, 0)
    IN
    /\ wait_registered(proxy_token, p)
    /\ cev' = IF q # 0 THEN local ELSE remotely
    /\ UNCHANGED <<proxy_token, register_loop, delay, ping_loop, closing,
                   failures, remote>>
    /\ UNCHANGED BrokerVars

\* The domains and commands the proxies call.
RequestTargets == {BOB, ECHO, SERVICE_LINK_DOMAIN}

RequestCommands == {"method_call", "describe"}

\* The client after construction and add_registration for each domain.
InitClient ==
    /\ proxy_token = [p \in Proxies |-> NONE]
    /\ register_loop = [p \in Proxies |-> "wait_unregistered"]
    /\ delay = [p \in Proxies |-> 1]
    /\ ping_loop = "wait"
    /\ closing = FALSE
    /\ failures = [p \in Proxies |-> 0]
    /\ remote = [uid |-> 1, holds |-> {}, seen |-> 0]
    /\ cev = CEv("init", 0, <<>>, 0, FALSE, 0)

\* The client: its proxies register and re-register, it pings the broker;
\* replies come, fail or time out; the broker is restarted; the client closes.
NextClient ==
    \/ \E p \in Proxies : StartRegister(p)
    \/ \E p \in Proxies, value \in ClientTokens : RegisterReply(p, value)
    \/ \E p \in Proxies : RegisterFails(p)
    \/ \E p \in Proxies : WakeUp(p)
    \/ PingStart
    \/ PingReply
    \/ PingFails
    \/ PingWake
    \/ BrokerRestart
    \/ CloseClient

\* ------------------------------------------------------------ AsyncObject
\* One closable object (src/pylar/async_object.py) with the entries of its
\* _cleanup_functions: functions given to add_cleanup, and the tasks add_task
\* made (a task is taken off the list by on_task_done when it ends).
\*
\* obj.close_task, the _close task made by __init__:
\*   "waiting"  at `await self._closing.wait()`
\*   "running"  in the loop over the copy of _cleanup_functions
\*   "done"     the loop is over
\*   "failed"   an exception that is not CancelledError left the loop
\* obj.todo is what is left of the copy; obj.tasks tells how each task
\* stands: "running", "returned", "raised", "cancelled".
\* obj.ran (the entries _close called or awaited) and obj.registered (the
\* list when close() was first called) are kept for the properties.

\* entries ever given to add_cleanup of one object
MaxCleanup == 3

EntryKinds == {"function", "task"}

\* How a task may end: it returns or raises; once the object is closing,
\* run_until_closing cancels it, which ends it with CancelledError unless the
\* coroutine returns or raises on its way out.
Endings(is_closing) ==
    IF is_closing THEN {"returned", "raised", "cancelled"}
    ELSE {"returned", "raised"}

\* AsyncObject.closed: self._close_task.done()
closed == obj.close_task \in {"done", "failed"}

\* AsyncObject.add_cleanup(func), and add_task(coro), which schedules the
\* task and gives it to add_cleanup.
AddCleanup(kind) ==
    LET e == [name |-> obj.count + 1, kind |-> kind] IN
    /\ obj.count < MaxCleanup
    /\ obj' = [obj EXCEPT
                 !.count = @ + 1,
                 !.cleanup = Append(@, e),
                 !.tasks = IF kind = "task" THEN With(@, e.name, "running")
                           ELSE @,
                 !.op = "add"]
    /\ UNCHANGED <<corevars, clientvars, ordervars, writing>>

\* A task ends; AsyncObject.on_task_done takes it off _cleanup_functions.
TaskDone(n, how) ==
    /\ n \in DOMAIN obj.tasks
    /\ obj.tasks[n] = "running"
    /\ how \in Endings(obj.closing)
    /\ obj' = [obj EXCEPT
                 !.tasks[n] = how,
                 !.cleanup = deque_remove(@, [name |-> n, kind |-> "task"]),
                 !.op = "task_done"]
    /\ UNCHANGED <<corevars, clientvars, ordervars, writing>>

\* AsyncObject.close(): self._closing.set()
CloseObject ==
    /\ obj' = [obj EXCEPT
                 !.closing = TRUE,
                 !.registered = IF obj.closing THEN @ ELSE obj.cleanup,
                 !.op = "close"]
    /\ UNCHANGED <<corevars, clientvars, ordervars, writing>>

\* AsyncObject._close wakes up and copies the list: self._cleanup_functions[:]
CloseBegin ==
    /\ obj.closing
    /\ obj.close_task = "waiting"
    /\ obj' = [obj EXCEPT !.close_task = "running", !.todo = obj.cleanup,
                          !.op = "close_begin"]
    /\ UNCHANGED <<corevars, clientvars, ordervars, writing>>

\* One round of the loop of _close: a function is called; a task is awaited,
\* which gives its CancelledError (caught), its result, or its exception
\* (not caught: it ends _close).
CloseStep ==
    LET f == Head(obj.todo) IN
    /\ obj.close_task = "running"
    /\ obj.todo # <<>>
    /\ f.kind = "task" => obj.tasks[f.name] # "running"
    /\ obj' = IF f.kind = "task" /\ obj.tasks[f.name] = "raised"
              THEN [obj EXCEPT !.close_task = "failed",
                               !.ran = Append(@, f), !.op = "close_step"]
              ELSE [obj EXCEPT !.todo = Tail(@),
                               !.ran = Append(@, f), !.op = "close_step"]
    /\ UNCHANGED <<corevars, clientvars, ordervars, writing>>

\* The loop of _close is over.
CloseEnd ==
    /\ obj.close_task = "running"
    /\ obj.todo = <<>>
    /\ obj' = [obj EXCEPT !.close_task = "done", !.op = "close_end"]
    /\ UNCHANGED <<corevars, clientvars, ordervars, writing>>

\* AsyncObject.__init__
InitObject ==
    obj = [closing |-> FALSE, cleanup |-> <<>>, close_task |-> "waiting",
           todo |-> <<>>, tasks |-> EmptyMap, count |-> 0, ran |-> <<>>,
           registered |-> <<>>, op |-> "init"]

NextObject ==
    \/ \E kind \in EntryKinds : AddCleanup(kind)
    \/ \E n \in 1 .. MaxCleanup, how \in Endings(TRUE) : TaskDone(n, how)
    \/ CloseObject
    \/ CloseBegin
    \/ CloseStep
    \/ CloseEnd

\* ----------------------------------------------------- receiving in detail
\* The way of a frame from the socket to its handler: Broker.__receiving_loop
\* puts it on the queue of the Connection, the receiving loop of the
\* Connection reads it and adds a task for it, the event loop starts the
\* tasks it has scheduled in the order of their scheduling, and the handlers
\* end in any order.

\* frames the peers send, all together
MaxFrames == 3

\* The frames received so far.
Received == { <<i, k>> \in Identities \X (1 .. MaxFrames) : k <= Len(arrived[i]) }

FrameTypes == {"request", "notification"}

\* A queue that gives the frame put last.
read_bad(q) == [frames |-> q[Len(q)], rest |-> SubSeq(q, 1, Len(q) - 1)]

\* Connection._read: self.__queue.get() of an asyncio.Queue gives the frame
\* put first.
read(q) == [frames |-> Head(q), rest |-> Tail(q)]

\* Broker.__receiving_loop: a frame of the peer `ident` arrives and
\* Connection.receive puts it on the queue.  A frame is named by its place
\* in what the peer sent.
Arrive(ident, type_) ==
    LET f == [type |-> type_, id |-> Len(arrived[ident]) + 1, from |-> ident]
    IN
    /\ Cardinality(Received) < MaxFrames
    /\ arrived' = [arrived EXCEPT ![ident] = Append(@, f)]
    /\ queue' = [queue EXCEPT ![ident] = Append(@, f)]
    /\ UNCHANGED <<ready, handed, active, replied>>
    /\ UNCHANGED <<corevars, clientvars, obj, writing>>

\* GenericClient.__receiving_loop: a frame is read and add_task schedules the
\* task run_until_closing(__process_request / __process_notification).
ReadFrame(ident) ==
    LET r == read(queue[ident]) IN
    /\ queue[ident] # <<>>
    /\ queue' = [queue EXCEPT ![ident] = r.rest]
    /\ ready' = Append(ready, [step |-> "run_until_closing",
                               frame |-> r.frames])
    /\ UNCHANGED <<arrived, handed, active, replied>>
    /\ UNCHANGED <<corevars, clientvars, obj, writing>>

\* The event loop starts the task scheduled first.  run_until_closing
\* schedules the coroutine it was given as a task of its own; the first step
\* of that task calls _on_request or _on_notification with the frame.
RunReady ==
    LET t == Head(ready)
        f == t.frame
    IN
    /\ ready # <<>>
    /\ IF t.step = "run_until_closing"
       THEN /\ ready' = Append(Tail(ready), [step |-> "coro", frame |-> f])
            /\ UNCHANGED <<handed, active>>
       ELSE /\ ready' = Tail(ready)
            /\ handed' = [handed EXCEPT ![f.from] = Append(@, f)]
            /\ active' = active \cup {f}
    /\ UNCHANGED <<queue, arrived, replied>>
    /\ UNCHANGED <<corevars, clientvars, obj, writing>>

\* A handler ends: __process_request writes the response of a request.
Complete(f) ==
    /\ f \in active
    /\ active' = active \ {f}
    /\ replied' = IF f.type = "request"
                  THEN [replied EXCEPT ![f.from] = Append(@, f.id)]
                  ELSE replied
    /\ UNCHANGED <<queue, ready, arrived, handed>>
    /\ UNCHANGED <<corevars, clientvars, obj, writing>>

InitLoop ==
    /\ queue = [i \in Identities |-> <<>>]
    /\ ready = <<>>
    /\ arrived = [i \in Identities |-> <<>>]
    /\ handed = [i \in Identities |-> <<>>]
    /\ active = {}
    /\ replied = [i \in Identities |-> <<>>]
    /\ writing = [i \in Identities |-> EmptyMap]
    /\ InitObject

\* The frames of the model.
Frames ==
    [type : FrameTypes, id : 1 .. MaxFrames, from : Identities]

NextOrder ==
    \/ \E i \in Pair, ty \in FrameTypes : Arrive(i, ty)
    \/ \E i \in Pair : ReadFrame(i)
    \/ RunReady
    \/ \E f \in Frames : Complete(f)

\* ------------------------------------------------------------ specification
Init ==
    /\ broker = "running"
    /\ gen = [i \in Identities |-> 0]
    /\ phase = [i \in Identities |-> "none"]
    /\ domains = [i \in Identities |-> EmptyMap]
    /\ reqgen = [i \in Identities |-> 0]
    /\ pending = [i \in Identities |-> EmptyMap]
    /\ connections = [i \in Identities |-> NoConn]
    /\ connections_by_domain = EmptyMap
    /\ round = [d \in Domains |-> <<>>]
    /\ issued = [i \in Identities |-> EmptyMap]
    /\ pings = {}
    /\ ev = Quiet("init")
    /\ timeout = [i \in Identities |-> 0]
    /\ silence = [i \in Identities |-> 0]
    /\ InitClient
    /\ InitLoop

\* What the peers answer to a forwarded request.
Replies ==
    {<<200, <<"tok1">>>>, <<200, <<"tok2">>>>, <<200, <<>>>>,
     <<401, <<"Denied.">>>>}

\* The source domain and token a transmit carries.
\* The frames that follow an unknown command: none, or a domain.
BadFrames == {<<>>, <<ECHO>>}

XDomains == {BOB}

XTokens == {"tok1"}

NotificationTypes == {"event", "transmit"}

\* The whole broker: every frame from every peer, every lifecycle event.
Next ==
    \/ \E i \in Identities : Ping(i)
    \/ \E i \in Identities, rest \in BadFrames : BadCommand(i, rest)
    \/ \E i \in Identities : \E d \in Serves(i) :
          \E cr \in Credentials(d) : RegisterService(i, d, cr)
    \/ \E i \in Identities : \E d \in Serves(i), cr \in Passwords :
          RegisterUser(i, d, cr)
    \/ \E i \in Identities : \E d \in Serves(i) : Unregister(i, d)
    \/ \E i \in Identities : \E d \in Serves(i), t \in Targets :
          Request(i, d, t)
    \/ \E i \in Identities : \E d \in Serves(i), t \in Targets :
          Query(i, d, t)
    \/ \E i \in Identities : \E d \in Serves(i), t \in Targets,
          xd \in XDomains, xt \in XTokens : Transmit(i, d, t, xd, xt)
    \/ \E i \in Identities : \E ty \in NotificationTypes, d \in Serves(i),
          t \in Targets, xd \in XDomains, xt \in XTokens :
          Notification(i, ty, d, t, xd, xt)
    \/ \E i \in Identities, k \in 0 .. MaxReqId - 1, r \in Replies :
          Response(i, k, r[1], r[2])
    \/ \E i \in Identities, k \in 0 .. MaxReqId - 1, r \in Replies :
          StrayResponse(i, k, r[1], r[2])
    \/ \E i \in Identities : Heartbeat(i)
    \/ \E i \in Identities : Close(i)
    \/ \E i \in Identities : RemoveConnection(i)
    \/ Shutdown
    \/ StopReceiving
    \/ Tick
    \/ \E i \in Identities : Expire(i)
    \/ NextClient
    \/ \E p \in Proxies, t \in RequestTargets, c \in RequestCommands :
          ProxyRequest(p, t, c)
    \/ NextOrder
    \/ NextObject
    \/ \E i \in Identities, d, t \in Domains : WriteRequest(i, d, t)
    \/ \E i \in Identities, k \in 0 .. MaxReqId - 1 : RecordRequest(i, k)

Spec == Init /\ [][Next]_vars

GoodCredentials(domain) == {make_credentials(shared_secret, <<1>>, domain)}

\* The peers of the routing and admission scenarios: each runs a replica of
\* an ordinary service; the first is also a user, the second also the link
\* service.  There is no authentication service.
RouteServes(ident) ==
    IF ident = 1 THEN {ECHO, BOB} ELSE {ECHO, SERVICE_LINK_DOMAIN}

\* Routing: the peers register and call each other; no connection ends.
NextRoute ==
    \/ \E i \in Pair : \E d \in RouteServes(i) :
          \E cr \in GoodCredentials(d) : RegisterService(i, d, cr)
    \/ \E i \in Pair : \E d \in RouteServes(i), cr \in Passwords :
          RegisterUser(i, d, cr)
    \/ \E i \in Pair : \E d \in RouteServes(i), t \in Targets :
          Request(i, d, t)
    \/ \E i \in Pair : \E d \in RouteServes(i), t \in Targets :
          Query(i, d, t)
    \/ \E i \in Pair : \E d \in RouteServes(i), t \in Targets,
          xd \in XDomains, xt \in XTokens : Transmit(i, d, t, xd, xt)
    \/ \E i \in Pair : \E ty \in NotificationTypes,
          d \in RouteServes(i), t \in Targets, xd \in XDomains,
          xt \in XTokens : Notification(i, ty, d, t, xd, xt)
    \/ \E i \in Pair, k \in 0 .. MaxReqId - 1, r \in Replies :
          Response(i, k, r[1], r[2])

SpecRoute == Init /\ [][NextRoute]_vars

\* Admission: the same peers register, with good and bad credentials, and
\* unregister.
NextAdmit ==
    \/ \E i \in Pair : \E d \in RouteServes(i) :
          \E cr \in Credentials(d) : RegisterService(i, d, cr)
    \/ \E i \in Pair : \E d \in RouteServes(i), cr \in Passwords :
          RegisterUser(i, d, cr)
    \/ \E i \in Pair : \E d \in RouteServes(i) : Unregister(i, d)
    \/ \E i \in Pair, k \in 0 .. MaxReqId - 1, r \in Replies :
          Response(i, k, r[1], r[2])
    \/ \E i \in Pair, rest \in BadFrames : BadCommand(i, rest)

SpecAdmit == Init /\ [][NextAdmit]_vars

\* The registry under every kind of event: the first peer runs the
\* authentication service, both peers are the same user; registrations wait
\* for the authentication service while connections time out, are lost, and
\* the broker shuts down.
RegistryServes(ident) ==
    IF ident = 1 THEN {SERVICE_AUTHENTICATION_DOMAIN, BOB} ELSE {BOB}

NextRegistry ==
    \/ \E i \in Pair :
          \E d \in RegistryServes(i) \cap {SERVICE_AUTHENTICATION_DOMAIN} :
          \E cr \in GoodCredentials(d) : RegisterService(i, d, cr)
    \/ \E i \in Pair : \E d \in RegistryServes(i), cr \in Passwords :
          RegisterUser(i, d, cr)
    \/ \E i \in Pair : \E d \in RegistryServes(i) : Unregister(i, d)
    \/ \E i \in Pair : \E d \in RegistryServes(i) : Request(i, d, BOB)
    \/ \E i \in Pair, k \in 0 .. MaxReqId - 1, r \in Replies :
          Response(i, k, r[1], r[2])
    \/ \E i \in Pair : Close(i)
    \/ \E i \in Pair : RemoveConnection(i)
    \/ Shutdown
    \/ StopReceiving

SpecRegistry == Init /\ [][NextRegistry]_vars

\* The life of connections: two replicas of an ordinary service that ping,
\* call each other, time out and come back.
NextLife ==
    \/ \E i \in Pair : Ping(i)
    \/ \E i \in Pair : \E cr \in GoodCredentials(ECHO) :
          RegisterService(i, ECHO, cr)
    \/ \E i \in Pair : Request(i, ECHO, ECHO)
    \/ \E i \in Pair, k \in 0 .. MaxReqId - 1, r \in Replies :
          Response(i, k, r[1], r[2])
    \/ \E i \in Pair : Close(i)
    \/ \E i \in Pair : RemoveConnection(i)

SpecLife == Init /\ [][NextLife]_vars

\* Replicas: three peers register and unregister an ordinary service and the
\* link service, and query the ordinary service.
ReplicaServes == {ECHO, SERVICE_LINK_DOMAIN}

NextUnregister ==
    \/ \E i \in Identities : \E d \in ReplicaServes :
          \E cr \in GoodCredentials(d) : RegisterService(i, d, cr)
    \/ \E i \in Identities, d \in ReplicaServes : Unregister(i, d)
    \/ \E i \in Identities, d \in ReplicaServes : Query(i, d, ECHO)

SpecUnregister == Init /\ [][NextUnregister]_vars

\* Replies: two replicas of a service, one of them with two requests in
\* flight; they call the service and a domain nobody serves, answer, time
\* out and come back.
ReplyPeers == {1, NumPeers}

NextReply ==
    \/ \E i \in ReplyPeers : \E cr \in GoodCredentials(ECHO) :
          RegisterService(i, ECHO, cr)
    \/ \E i \in ReplyPeers, t \in Targets : Request(i, ECHO, t)
    \/ \E i \in ReplyPeers, k \in 0 .. MaxReqId - 1, r \in Replies :
          Response(i, k, r[1], r[2])
    \/ \E i \in ReplyPeers, k \in 0 .. MaxReqId - 1, r \in Replies :
          StrayResponse(i, k, r[1], r[2])
    \/ \E i \in ReplyPeers : Close(i)
    \/ \E i \in ReplyPeers : RemoveConnection(i)

SpecReply == Init /\ [][NextReply]_vars

\* Request ids: two replicas of a service call and notify each other while
\* the broker pings them; they answer, time out and come back.
NextIds ==
    \/ \E i \in Pair : \E cr \in GoodCredentials(ECHO) :
          RegisterService(i, ECHO, cr)
    \/ \E i \in Pair : Request(i, ECHO, ECHO)
    \/ \E i \in Pair, xd \in XDomains, xt \in XTokens :
          Notification(i, "event", ECHO, ECHO, xd, xt)
    \/ \E i \in Pair : Heartbeat(i)
    \/ \E i \in Pair, k \in 0 .. MaxReqId - 1, r \in Replies :
          Response(i, k, r[1], r[2])
    \/ \E i \in Pair : Close(i)
    \/ \E i \in Pair : RemoveConnection(i)

SpecIds == Init /\ [][NextIds]_vars

\* Forwarding: one peer runs an ordinary service, the other the link service;
\* they call both services and answer, in any order.
ForwardServes(ident) == IF ident = 1 THEN {ECHO} ELSE {SERVICE_LINK_DOMAIN}

ForwardTargets == {ECHO, SERVICE_LINK_DOMAIN}

NextForward ==
    \/ \E i \in Pair : \E d \in ForwardServes(i) :
          \E cr \in GoodCredentials(d) : RegisterService(i, d, cr)
    \/ \E i \in Pair : \E d \in ForwardServes(i), t \in ForwardTargets :
          Request(i, d, t)
    \/ \E i \in Pair, k \in 0 .. MaxReqId - 1, r \in Replies :
          Response(i, k, r[1], r[2])

SpecForward == Init /\ [][NextForward]_vars

\* Silence: two replicas of a service call the service and answer while time
\* passes; a replica that stays silent is timed out and comes back.
NextTimer ==
    \/ \E i \in Pair : \E cr \in GoodCredentials(ECHO) :
          RegisterService(i, ECHO, cr)
    \/ \E i \in Pair : Request(i, ECHO, ECHO)
    \/ \E i \in Pair, k \in 0 .. MaxReqId - 1 :
          Response(i, k, 200, <<>>)
    \/ Tick
    \/ \E i \in Pair : Expire(i)
    \/ \E i \in Pair : RemoveConnection(i)

SpecTimer == Init /\ [][NextTimer]_vars

\* The event loop calls the callback of a timer that is due, and runs the
\* _close task of a Connection that is closing to its last cleanup function.
SpecTimerFair ==
    /\ SpecTimer
    /\ \A i \in Pair : WF_vars(Expire(i))
    /\ \A i \in Pair : WF_vars(RemoveConnection(i))

\* The client alone.
SpecClient == Init /\ [][NextClient]_vars

\* Local calls: the proxies register, are unregistered by a failed ping, and
\* call each other and a remote domain.
NextLocal ==
    \/ \E p \in Proxies : StartRegister(p)
    \/ \E p \in Proxies, value \in ClientTokens : RegisterReply(p, value)
    \/ PingStart
    \/ PingFails
    \/ PingWake
    \/ \E p \in Proxies, t \in RequestTargets, c \in RequestCommands :
          ProxyRequest(p, t, c)

SpecLocal == Init /\ [][NextLocal]_vars

\* The event loop runs the loops of the client: a loop that can go on does,
\* a sleep ends, and asyncio.wait_for ends every wait for a reply, by the
\* reply or by the timeout.
SpecClientFair ==
    /\ SpecClient
    /\ \A p \in Proxies : WF_vars(StartRegister(p))
    /\ \A p \in Proxies : WF_vars(WakeUp(p))
    /\ \A p \in Proxies :
         WF_vars(RegisterFails(p)
                 \/ \E value \in ClientTokens : RegisterReply(p, value))
    /\ WF_vars(PingStart)
    /\ WF_vars(PingWake)
    /\ WF_vars(PingReply \/ PingFails)

\* What a service answers: results of no, one and two frames, error replies
\* with a message, with frames after the message, and without a message.
VerbatimReplies ==
    {<<200, <<"x", "y">>>>, <<200, <<"y", "x">>>>, <<200, <<"x">>>>,
     <<200, <<>>>>, <<404, <<"Unknown command.">>>>,
     <<401, <<"Denied.", "x">>>>, <<500, <<>>>>}

\* Replies: a service and the link service are called and answer.
NextVerbatim ==
    \/ \E i \in Pair : \E d \in ForwardServes(i) :
          \E cr \in GoodCredentials(d) : RegisterService(i, d, cr)
    \/ \E i \in Pair : \E d \in ForwardServes(i), t \in Targets :
          Request(i, d, t)
    \/ \E i \in Pair, k \in 0 .. MaxReqId - 1, r \in VerbatimReplies :
          Response(i, k, r[1], r[2])

SpecVerbatim == Init /\ [][NextVerbatim]_vars

\* Notifications: the peers register and unregister services and notify
\* them, also on behalf of others.
NextNotify ==
    \/ \E i \in Pair : \E d \in RouteServes(i) :
          \E cr \in GoodCredentials(d) : RegisterService(i, d, cr)
    \/ \E i \in Pair : \E d \in RouteServes(i) : Unregister(i, d)
    \/ \E i \in Pair : \E ty \in NotificationTypes,
          d \in RouteServes(i), t \in Targets, xd \in XDomains,
          xt \in XTokens : Notification(i, ty, d, t, xd, xt)

SpecNotify == Init /\ [][NextNotify]_vars

\* Requests between the write of the frame and the entry of the future: two
\* replicas of a service call each other, answer and close.
NextWrite ==
    \/ \E i \in Pair : \E cr \in GoodCredentials(ECHO) :
          RegisterService(i, ECHO, cr)
    \/ \E i \in Pair : WriteRequest(i, ECHO, ECHO)
    \/ \E i \in Pair, k \in 0 .. MaxReqId - 1 : RecordRequest(i, k)
    \/ \E i \in Pair, k \in 0 .. MaxReqId - 1, r \in Replies :
          Response(i, k, r[1], r[2])
    \/ \E i \in Pair, k \in 0 .. MaxReqId - 1, r \in Replies :
          StrayResponse(i, k, r[1], r[2])
    \/ \E i \in Pair : Close(i)

SpecWrite == Init /\ [][NextWrite]_vars

\* Refused registrations: the first peer is the authentication service and
\* registers with good and bad credentials, the second is a user whose
\* registrations the service accepts, refuses or never answers; both close.
RefuseServes(ident) ==
    IF ident = 1 THEN {SERVICE_AUTHENTICATION_DOMAIN} ELSE {BOB}

NextRefuse ==
    \/ \E i \in Pair :
          \E d \in RefuseServes(i) \cap {SERVICE_AUTHENTICATION_DOMAIN} :
          \E cr \in Credentials(d) : RegisterService(i, d, cr)
    \/ \E i \in Pair :
          \E d \in RefuseServes(i) \ {SERVICE_AUTHENTICATION_DOMAIN},
             cr \in Passwords : RegisterUser(i, d, cr)
    \/ \E i \in Pair, k \in 0 .. MaxReqId - 1, r \in Replies :
          Response(i, k, r[1], r[2])
    \/ \E i \in Pair : Close(i)
    \/ \E i \in Pair : RemoveConnection(i)

SpecRefuse == Init /\ [][NextRefuse]_vars

\* The life of one closable object.
SpecObject == Init /\ [][NextObject]_vars

\* The order of frames: two peers send requests and notifications.
SpecOrder == Init /\ [][NextOrder]_vars

\* ------------------------------------------------------------- properties
\* The latest Connection object of an identity.
Latest(i) == <<i, gen[i]>>

Listed(cbd, connection, domain) == connection \in Elems(Lst(cbd, domain))

\* C1: in every reachable state a connection is listed under a domain of the
\* registry exactly when the domain is a key of its own domains table, and the
\* token stored there is the one of its last successful registration for the
\* domain; only the Connection objects of the connection map are listed.
C1_RegistryMatchesDomains ==
    /\ \A i \in Identities, d \in Domains :
         /\ Listed(connections_by_domain, Latest(i), d)
              <=> d \in DOMAIN domains[i]
         /\ d \in DOMAIN domains[i] =>
              /\ d \in DOMAIN issued[i]
              /\ domains[i][d] = issued[i][d]
    /\ \A d \in DOMAIN connections_by_domain :
         \A c \in Elems(connections_by_domain[d]) :
            c[1] \in Identities /\ c = Latest(c[1])

\* Two connections hold the same user domain under different tokens, one of
\* them is closing and still listed.
C1_Witness ==
    /\ BOB \in DOMAIN domains[1] /\ BOB \in DOMAIN domains[2]
    /\ domains[1][BOB] # domains[2][BOB]
    /\ Len(Lst(connections_by_domain, BOB)) = 2
    /\ \E i \in Identities : phase[i] = "closing"

\* C2: the registry holds no domain whose connection list is empty, and no
\* connection appears more than once in the list of one domain, whatever the
\* registrations (repeated and concurrent ones included), unregistrations and
\* disconnections before.
C2_NoEmptyNoDuplicate ==
    \A d \in DOMAIN connections_by_domain :
       /\ connections_by_domain[d] # <<>>
       /\ NoDuplicates(connections_by_domain[d])

\* A registration of a domain has just completed for a connection while
\* another registration of the same domain by the same connection, sent
\* before, is still waiting for the authentication service.
C2_Witness ==
    /\ ev.op = "register_reply" /\ ev.code = 200
    /\ \E i \in Identities :
         /\ BOB \in DOMAIN domains[i]
         /\ \E j \in Identities : \E k \in DOMAIN pending[j] :
              /\ pending[j][k].from = i
              /\ pending[j][k].kind = "register"
              /\ pending[j][k].domain = BOB

\* C3: round-robin fairness: while the connections of a domain stay the same,
\* no connection is served a second time before every other connection of
\* the domain was served once, so that K*N calls give each of N connections
\* exactly K.
C3_RoundRobinFair == \A d \in Domains : NoDuplicates(round[d])

\* C4: when the closing of a connection has completed, no outbound request
\* is pending on it any more: every one was cancelled and removed from the
\* correlator, no caller is left waiting on it.
C4_ClosedHasNoPending ==
    \A i \in Identities : phase[i] = "closed" => pending[i] = EmptyMap

NothingSent(ident) ==
    /\ ev'.to = NoConn
    /\ ev'.frames = <<>>
    /\ reqgen' = ReqgenAt(ident)
    /\ pending' = PendingAt(ident)

\* C6: a request, query or transmit command, or a notification, whose
\* source-domain is not in the calling connection's domains table is
\* forwarded to no connection, whether the target exists or not; the
\* commands are answered 412 "Not registered".  (Every step either is such an
\* answer, or is not the handling of such a frame.)
C6_UnregisteredSourceRejected ==
    [][\A i \in Identities, d \in Domains :
         (/\ ev'.op \in {"request", "query", "transmit", "notification",
                         "transmit_notification"}
          /\ connections'[i] # NoConn
          /\ d \notin DOMAIN domains[i]) =>
           /\ \/ /\ NothingSent(i)
                 /\ ev'.sent
                 /\ ev'.code = 412
                 /\ ev'.reply = <<"Not registered.">>
                 /\ UNCHANGED <<connections_by_domain, domains>>
              \/ ~ \E t \in Targets :
                     \/ ev'.op = "request" /\ Request(i, d, t)
                     \/ ev'.op = "query" /\ Query(i, d, t)
                     \/ /\ ev'.op = "transmit"
                        /\ \E xd \in XDomains, xt \in XTokens :
                              Transmit(i, d, t, xd, xt)
           /\ \/ /\ NothingSent(i)
                 /\ ~ev'.sent
                 /\ UNCHANGED <<connections_by_domain, domains>>
              \/ ~ /\ ev'.op \in {"notification", "transmit_notification"}
                   /\ \E t \in Targets, ty \in NotificationTypes,
                         xd \in XDomains, xt \in XTokens :
                         Notification(i, ty, d, t, xd, xt)]_vars

\* A transmit from a connection that serves other domains, but not the
\* source-domain it names, to a target that exists, was answered 412.
C6_Witness ==
    /\ ev.op = "transmit" /\ ev.code = 412
    /\ \E i \in Identities : DOMAIN domains[i] # {}
    /\ \E t \in Targets : Lst(connections_by_domain, t) # <<>>

\* C7: a request from a registered source-domain to a target-domain without
\* local connection, while no connection serves service/link, is answered
\* 404 "No such domain" (followed by the target-domain) and forwarded to no
\* connection.
C7_DoubleMissIs404 ==
    [][\A i \in Identities, d \in Domains, t \in Targets :
         (/\ d \in DOMAIN domains[i]
          /\ Lst(connections_by_domain, t) = <<>>
          /\ Lst(connections_by_domain, SERVICE_LINK_DOMAIN) = <<>>
          /\ ev'.op = "request"
          /\ Request(i, d, t))
           => /\ NothingSent(i)
              /\ ev'.sent
              /\ ev'.code = 404
              /\ ev'.reply = <<<<"No such domain: ", t, ".">>>>
              /\ UNCHANGED <<connections_by_domain, domains>>]_vars

\* A request was answered 404 in a registry that is not empty.
C7_Witness ==
    /\ ev.op = "request" /\ ev.code = 404
    /\ DOMAIN connections_by_domain # {}

\* C8: a request with a registered source-domain to a target with local
\* connections is forwarded, as it is, to one of these; to a target without
\* local connection, while some connection serves service/link, it is
\* forwarded to one of those as a request addressed to service/link with the
\* caller's source-domain and token, the command dispatch, the target-domain
\* and the caller's arguments.
C8_LocalFirstThenLink ==
    [][\A i \in Identities, d \in Domains, t \in Targets :
         (d \in DOMAIN domains[i] /\ ev'.op = "request" /\ Request(i, d, t)) =>
           LET local == Lst(connections_by_domain, t)
               link == Lst(connections_by_domain, SERVICE_LINK_DOMAIN)
           IN  /\ local # <<>> =>
                    /\ ev'.to \in Elems(local)
                    /\ ev'.frames = <<t, d, domains[i][d]>> \o Args
               /\ (local = <<>> /\ link # <<>>) =>
                    /\ ev'.to \in Elems(link)
                    /\ ev'.frames =
                         <<SERVICE_LINK_DOMAIN, d, domains[i][d], "dispatch", t>>
                           \o Args]_vars

\* A request was handed to the link service as a dispatch.
C8_Witness ==
    /\ ev.op = "request"
    /\ Len(ev.frames) > 4
    /\ ev.frames[1] = SERVICE_LINK_DOMAIN
    /\ ev.frames[4] = "dispatch"
    /\ ev.to \in Elems(Lst(connections_by_domain, SERVICE_LINK_DOMAIN))

\* C9: a register for a non-service domain, while no connection is registered
\* for service/authentication, fails with 503 "Authentication service
\* unavailable": no authenticate request is sent to any connection and the
\* registry stays as it is.
C9_NoAuthenticationIs503 ==
    [][\A i \in Identities, d \in Domains, cr \in Passwords :
         (/\ Lst(connections_by_domain, SERVICE_AUTHENTICATION_DOMAIN) = <<>>
          /\ ev'.op = "register"
          /\ RegisterUser(i, d, cr))
           => /\ NothingSent(i)
              /\ ev'.sent
              /\ ev'.code = 503
              /\ ev'.reply = <<"Authentication service unavailable.">>
              /\ UNCHANGED <<connections_by_domain, domains>>]_vars

\* The credentials the shared secret accepts for a service: the length of a
\* salt, the salt, and the hash of the salt personalized with the service
\* identifier under the shared secret.
Accepted(domain, credentials) ==
    \E salt \in {<<>>, <<0>>, <<1>>} :
       credentials = <<Len(salt)>> \o salt
                       \o generate_hash(shared_secret, salt, identifier16(domain))

C11_UserRegistrationAttested ==
    [][/\ \A i \in Identities, d \in Domains, cr \in Passwords :
            (ev'.op = "register" /\ ev'.to # NoConn /\ RegisterUser(i, d, cr))
              => ev'.to \in Elems(Lst(connections_by_domain,
                                      SERVICE_AUTHENTICATION_DOMAIN))
       /\ \A i \in Identities, d \in Domains :
            (/\ ~startswith_service(d)
             /\ d \in DOMAIN domains'[i]
             /\ d \notin DOMAIN domains[i])
              => ev'.op = "register_reply" /\ ev'.code = 200
       /\ \A i \in Identities, k \in 0 .. MaxReqId - 1, r \in Replies :
            (ev'.op = "register_reply" /\ Response(i, k, r[1], r[2])) =>
              LET w == pending[i][k] IN
              /\ (r[1] = 200 /\ Len(r[2]) > 0) =>
                   /\ domains'[w.from][w.domain] = r[2][1]
                   /\ ev'.reply = <<r[2][1]>>
              /\ r[1] # 200 =>
                   /\ ev'.code = r[1] /\ ev'.reply = r[2]
                   /\ UNCHANGED <<connections_by_domain, domains>>]_vars

\* C12: the transmit command and the transmit notification forward a request
\* or notification, carrying the source-domain and token their sender
\* supplied, only when the sending connection serves service/link.
C12_TransmitOnlyFromLink ==
    [][\A i \in Identities, d \in Domains, t \in Targets,
          xd \in XDomains, xt \in XTokens :
         /\ (/\ ev'.op = "transmit" /\ ev'.to # NoConn
             /\ Transmit(i, d, t, xd, xt))
              => SERVICE_LINK_DOMAIN \in DOMAIN domains[i]
         /\ (/\ ev'.op = "transmit_notification" /\ ev'.to # NoConn
             /\ Notification(i, "transmit", d, t, xd, xt))
              => SERVICE_LINK_DOMAIN \in DOMAIN domains[i]]_vars

\* C13 as stated: every forwarded request command carries the frames
\* target-domain, source-domain, source-token and the caller's arguments,
\* the source-domain being registered by the caller and the token the one
\* stored for it.
C13_ForwardedFrames ==
    [][\A i \in Identities, d \in Domains, t \in Targets :
         (ev'.op = "request" /\ ev'.to # NoConn /\ Request(i, d, t)) =>
           /\ d \in DOMAIN domains[i]
           /\ ev'.frames = <<t, d, domains[i][d]>> \o Args]_vars

\* C13: every forwarded request command carries a source-domain that the
\* calling connection has registered and the token the broker stored for it
\* at registration, in the second and third frame; handed to a connection of
\* the target-domain the frames are target-domain, source-domain, token and
\* the caller's arguments, handed to the link service they are service/link,
\* source-domain, token, dispatch, target-domain and the caller's arguments.
C13_ForwardedIdentity ==
    [][\A i \in Identities, d \in Domains, t \in Targets :
         (ev'.op = "request" /\ ev'.to # NoConn /\ Request(i, d, t)) =>
           /\ d \in DOMAIN domains[i]
           /\ d \in DOMAIN issued[i]
           /\ domains[i][d] = issued[i][d]
           /\ ev'.frames[2] = d
           /\ ev'.frames[3] = issued[i][d]
           /\ ev'.frames =
                IF ev'.to \in Elems(Lst(connections_by_domain, t))
                THEN <<t, d, domains[i][d]>> \o Args
                ELSE <<SERVICE_LINK_DOMAIN, d, domains[i][d], "dispatch", t>>
                       \o Args]_vars

\* A request of a user with a token was forwarded to a connection of its
\* target-domain.
C13_Witness ==
    /\ ev.op = "request"
    /\ ev.to # NoConn
    /\ Len(ev.frames) > 3
    /\ ev.frames[1] \in Targets
    /\ ev.frames[2] = BOB
    /\ ev.frames[3] # EMPTY

\* C14: a query from a source-domain its sender has registered is answered
\* 200 with an empty payload exactly when the target-domain has a connection
\* in the registry at that moment, and 404 otherwise, whether or not a
\* connection serves service/link; nothing is sent to any other connection.
C14_QueryIsLocalPresence ==
    [][\A i \in Identities, d \in Domains, t \in Targets :
         (ev'.op = "query" /\ d \in DOMAIN domains[i] /\ Query(i, d, t)) =>
           /\ NothingSent(i)
           /\ ev'.sent
           /\ IF Lst(connections_by_domain, t) # <<>>
              THEN ev'.code = 200 /\ ev'.reply = <<>>
              ELSE /\ ev'.code = 404
                   /\ ev'.reply = << <<"No such domain: ", t, ".">> >>]_vars

\* A query was answered 404 while a connection serves service/link.
C14_Witness ==
    /\ ev.op = "query"
    /\ ev.code = 404
    /\ Lst(connections_by_domain, SERVICE_LINK_DOMAIN) # <<>>

\* C15: a request whose command is not ping, register, unregister, request,
\* query or transmit is answered 400 "Bad request.", whatever frames follow
\* the command (none included); the registry stays as it is and nothing is
\* sent to any other connection.
C15_UnknownCommandIs400 ==
    [][\A i \in Identities, rest \in BadFrames :
         (ev'.op = "bad" /\ BadCommand(i, rest)) =>
           /\ NothingSent(i)
           /\ ev'.sent
           /\ ev'.code = 400
           /\ ev'.reply = <<"Bad request.">>
           /\ UNCHANGED <<connections_by_domain, domains>>]_vars

\* C16: an unregister of a domain by a connection that serves it removes the
\* connection from the domain's deque and the domain from the connection's
\* table, leaves the other members of the deque in their order, and leaves
\* every other deque and every other entry of a domains table as they are;
\* an unregister of a domain the connection does not serve is answered with
\* an error and changes neither the registry nor any domains table.
C16_UnregisterRemovesOnePair ==
    [][\A i \in Identities, d \in Domains :
         (ev'.op = "unregister" /\ Unregister(i, d)) =>
           LET c == ConnOf(i)
               before == Lst(connections_by_domain, d)
           IN  IF d \in DOMAIN domains[i]
               THEN /\ ~Listed(connections_by_domain', c, d)
                    /\ d \notin DOMAIN domains'[i]
                    /\ Lst(connections_by_domain', d) =
                         SelectSeq(before, LAMBDA x : x # c)
                    /\ \A e \in Domains \ {d} :
                         Lst(connections_by_domain', e) =
                           Lst(connections_by_domain, e)
                    /\ \A j \in Identities, e \in Domains :
                         <<j, e>> # <<i, d>> =>
                           dict_get(domains'[j], e) = dict_get(domains[j], e)
                    /\ ev'.sent /\ ev'.code = 200
               ELSE /\ ev'.sent
                    /\ ev'.code # 200
                    /\ UNCHANGED <<connections_by_domain, domains>>]_vars

\* A connection was unregistered from a domain that two other connections
\* still serve, the link service being served as well.
C16_Witness ==
    /\ ev.op = "unregister"
    /\ ev.code = 200
    /\ Len(Lst(connections_by_domain, ECHO)) = NumPeers - 1
    /\ Lst(connections_by_domain, SERVICE_LINK_DOMAIN) # <<>>

\* C17: the response written for a request is determined by how the request
\* handler ended: a return gives code 200 followed by the returned frames, a
\* CallError its code and message, a cancellation 408 "Request timed out.",
\* any other exception 500 "Internal error.".
C17_OutcomeDeterminesResponse ==
    ev.sent =>
      CASE ev.outcome.kind = "return" ->
             ev.code = 200 /\ ev.reply = ev.outcome.payload
        [] ev.outcome.kind = "CallError" ->
             /\ ev.code = ev.outcome.code
             /\ ev.reply = ev.outcome.payload
             /\ Len(ev.reply) = 1
        [] ev.outcome.kind = "CancelledError" ->
             ev.code = 408 /\ ev.reply = <<"Request timed out.">>
        [] ev.outcome.kind = "Exception" ->
             ev.code = 500 /\ ev.reply = <<"Internal error.">>
        [] OTHER -> FALSE

\* Handlers that waited for a reply were cancelled and answered 408.
C17_Witness ==
    /\ ev.op = "close"
    /\ ev.sent
    /\ ev.outcome.kind = "CancelledError"
    /\ ev.code = 408

\* The handlers that wait for a reply: the connection asked and the id
\* allocated there.
Added == { t \in Tasks(pending') :
             t \notin Tasks(pending) \/ pending'[t[1]][t[2]] # pending[t[1]][t[2]] }

Removed == { t \in Tasks(pending) :
               t \notin Tasks(pending') \/ pending'[t[1]][t[2]] # pending[t[1]][t[2]] }

\* C18: a request frame with id R is answered at most once, with id R: in
\* the step that handles it when its handler ends there, and otherwise, the
\* broker having forwarded it, in the step in which its waiting handler
\* ends; then the response carries the caller's id R whatever id the broker
\* allocated on the target connection.
C18_ResponseCarriesRequestId ==
    [][/\ ev'.ids \subseteq
            (IF Added = {} /\ ev'.rid # NoId THEN {ev'.rid} ELSE {})
              \cup { pending[t[1]][t[2]].rid : t \in Removed }
       /\ Added # {} =>
            /\ ev'.ids = {}
            /\ Cardinality(Added) = 1
            /\ \A t \in Added : pending'[t[1]][t[2]].rid = ev'.rid
       /\ ev'.op \in {"register_reply", "request_reply"} =>
            /\ Cardinality(Removed) = 1
            /\ \A t \in Removed : ev'.ids = {pending[t[1]][t[2]].rid}
       /\ (ev'.sent /\ ev'.rid # NoId) => ev'.ids = {ev'.rid}]_vars

\* The reply to one of two requests in flight from the same caller was
\* passed on, with the caller's id, while the other request still waits; the
\* ids allocated on the target connection are other numbers.
C18_Witness ==
    /\ ev.op = "request_reply"
    /\ ev.ids = {8}
    /\ \E i \in Identities : \E k \in DOMAIN pending[i] :
         /\ pending[i][k].rid = 7
         /\ pending[i][k].from = NumPeers

\* C19: a response frame whose request id is not pending on the connection
\* is discarded silently: no error or assertion failure is raised, no
\* handler is resumed, no frame is written and the pending requests stay as
\* they are.
C19_StrayResponseDiscarded ==
    [][\A i \in Identities, k \in 0 .. MaxReqId - 1, r \in Replies :
         (ev'.op = "stray_response" /\ StrayResponse(i, k, r[1], r[2])) =>
           /\ ev'.outcome = NoOutcome
           /\ ~ev'.sent
           /\ ev'.ids = {}
           /\ NothingSent(i)
           /\ pending' = pending]_vars

C21_OneGrowingCounter ==
    [][/\ ev'.to # NoConn =>
            /\ ev'.wid = reqgen[ev'.to[1]]
            /\ reqgen'[ev'.to[1]] = ev'.wid + 1
            /\ \A k \in DOMAIN pending[ev'.to[1]] : k < ev'.wid
       /\ ev'.to = NoConn => ev'.wid = NoId
       /\ \A i \in Identities :
            (connections'[i] = connections[i] /\ connections[i] # NoConn) =>
              /\ reqgen'[i] >= reqgen[i]
              /\ reqgen'[i] > reqgen[i] => ev'.to = connections[i]
       /\ \A t \in Added :
            /\ t \notin Tasks(pending)
            /\ t[1] = ev'.to[1]
            /\ t[2] = ev'.wid]_vars

\* A ping of the broker's heartbeat was sent under the second id of a
\* connection whose first id belongs to a request that is still pending.
C21_Witness ==
    /\ ev.op = "ping_sent"
    /\ ev.wid = 1
    /\ 0 \in DOMAIN pending[ev.to[1]]

\* C22: a Connection that has entered closing takes no new request: from
\* then on no frame is written to its peer and no future enters its
\* __pending_requests, also when the registry still lists it and
\* __get_connection_for picks it.
C22_ClosingRefusesRequests ==
    [][\A i \in Identities :
         (phase[i] = "closing" /\ phase'[i] = "closing") =>
           /\ ev'.to # connections[i]
           /\ \A t \in Added : t[1] # i]_vars

\* C23: forwarding is not serialized.  Whatever requests are awaiting their
\* replies, (a) a connection that is registered for a source domain, the one
\* whose own request is pending included, can have a further request accepted
\* and forwarded to a service on another connection than the one a pending
\* request waits on, the pending requests staying as they are, and (b) every
\* pending request can be answered at once, the others staying pending: a
\* later request can be answered before an earlier one.  (The preconditions
\* on reqgen and Tasks are the bounds of the model.)
C23_ForwardingNotSerialized ==
    /\ \A i \in Pair : \A s \in ForwardServes(i), t \in ForwardTargets :
         LET r == get_connection_for(connections_by_domain, t, TRUE) IN
         ( /\ connections[i] # NoConn
           /\ phase[i] = "open"
           /\ registered(domains[i], s)
           /\ r.found
           /\ \E p \in Tasks(pending) : p[1] # r.conn[1]
           /\ reqgen[r.conn[1]] < MaxReqId
           /\ Cardinality(Tasks(pending)) < MaxTasks )
         => ENABLED ( /\ Request(i, s, t)
                      /\ ev'.to = r.conn
                      /\ Tasks(pending) \subseteq Tasks(pending')
                      /\ Cardinality(Tasks(pending')) =
                           Cardinality(Tasks(pending)) + 1 )
    /\ \A p \in Tasks(pending) :
         phase[p[1]] = "open" =>
           ENABLED ( /\ Response(p[1], p[2], 200, <<>>)
                     /\ Tasks(pending') = Tasks(pending) \ {p}
                     /\ ev'.ids = {pending[p[1]][p[2]].rid} )

\* The request sent last was forwarded to a service while an earlier one,
\* forwarded to the other service, still awaits its reply.
C23_Witness ==
    /\ ev.op = "request"
    /\ ev.to # NoConn
    /\ ev.wid \in DOMAIN pending[ev.to[1]]
    /\ \E p \in Tasks(pending) :
         /\ p[1] # ev.to[1]
         /\ pending[p[1]][p[2]].kind = "request"
         /\ DOMAIN domains[p[1]] \cap DOMAIN domains[ev.to[1]] = {}
         /\ DOMAIN domains[p[1]] # {}

\* C24: when the shutdown of the broker has completed (its receiving loop has
\* ended and every connection that was being closed has been removed), the
\* connection map and the domain registry are both empty.
C24_EmptyAfterShutdown ==
    (broker = "stopped" /\ \A i \in Identities : phase[i] # "closing") =>
      /\ \A i \in Identities : connections[i] = NoConn
      /\ \A d \in DOMAIN connections_by_domain :
           connections_by_domain[d] = <<>>

\* The Connection object c is in the connection map or in a domain list.
Known(c) ==
    \/ \E i \in Identities : connections[i] = c
    \/ \E d \in DOMAIN connections_by_domain :
         c \in Elems(connections_by_domain[d])

Objects == { <<i, g>> : i \in Identities, g \in 1 .. MaxGen + 1 }

\* C25: every frame that arrives from a peer starts the period of the dying
\* timer of its Connection again; a Connection is closed by its timer only
\* when its peer has been silent for a full period; a Connection whose peer
\* has been silent for a full period is closed and removed from the map and
\* from every domain list, and a request is only ever forwarded to a
\* Connection that has not been removed: to a surviving replica, or else the
\* caller is answered 404.
C25_SilentPeerIsRemoved ==
    /\ [][/\ \A i \in Identities :
               silence'[i] = 0 /\ connections'[i] # NoConn => timeout'[i] = 0
          /\ \A i \in Identities :
               phase[i] = "open" /\ phase'[i] = "closing" =>
                 silence[i] = TimeoutTicks
          /\ ev'.op = "request" =>
               \/ /\ ev'.to # NoConn
                  /\ connections[ev'.to[1]] = ev'.to
                  /\ ECHO \in DOMAIN domains[ev'.to[1]]
               \/ /\ ev'.to = NoConn
                  /\ ev'.code = 404
                  /\ \A i \in Identities : ECHO \notin DOMAIN domains[i]
               \/ /\ ev'.to = NoConn
                  /\ ev'.code = 412]_vars
    /\ \A c \in Objects :
         (connections[c[1]] = c /\ Running(c[1])
          /\ silence[c[1]] = TimeoutTicks) ~> ~ Known(c)

\* A replica was silent for a full period and has been removed; the request
\* handled last went to the surviving replica.
C25_Witness ==
    /\ ev.op = "request"
    /\ ev.to # NoConn
    /\ phase[ev.to[1]] = "open"
    /\ \E i \in Identities :
         /\ phase[i] = "closed"
         /\ silence[i] = TimeoutTicks
         /\ i # ev.to[1]

\* C26: when the client's ping times out or fails, the client flushes the
\* outgoing queues and sets the token of every proxy to None, and its ping
\* loop goes on (it sleeps, then pings again); from then on every proxy
\* issues a new register request, unless the client is closed.
C26_PingFailureUnregisters ==
    /\ [][cev'.op = "ping_failed" =>
            /\ cev'.flushed
            /\ \A p \in Proxies : proxy_token'[p] = NONE
            /\ ping_loop' = "sleeping"]_vars
    /\ \A p \in Proxies :
         (cev.op = "ping_failed") ~>
           ((cev.op = "register" /\ cev.proxy = p) \/ closing)
    /\ (cev.op = "ping_failed") ~> (cev.op = "ping" \/ closing)

\* A ping has failed after an earlier one was answered; every proxy is back
\* at the start of its register loop without a token.
C26_Witness ==
    /\ cev.op = "ping_failed"
    /\ remote.seen # 0
    /\ \A p \in Proxies :
         proxy_token[p] = NONE /\ register_loop[p] = "wait_unregistered"

\* C27: when a ping is answered with a broker uid that differs from the uid
\* of the previous answer, the client clears the token of every proxy.
C27_UidChangeClearsTokens ==
    [][(cev'.op = "pong" /\ remote.seen # 0 /\ cev'.uid # remote.seen) =>
         \A p \in Proxies : proxy_token'[p] = NONE]_vars

RECURSIVE Pow(_, _)
Pow(b, n) == IF n = 0 THEN 1 ELSE b * Pow(b, n - 1)

\* C28 as stated: after its n-th consecutive failed attempt (n = 0, 1, ...)
\* a proxy waits 1.5^n seconds, at most 60: waited * 2^n = min(3^n, 60 * 2^n).
C28_ExponentialBackoff ==
    [][(cev'.op = "register_failed" /\ failures[cev'.proxy] < MaxFailures) =>
         LET n == failures[cev'.proxy]
         IN  cev'.waited * Pow(2, n) =
               IF Pow(3, n) < max_delay * Pow(2, n) THEN Pow(3, n)
               ELSE max_delay * Pow(2, n)]_vars

\* The seconds waited after the n-th consecutive failure: 1.5 times the
\* previous wait rounded up to a whole second, at most 60.
Schedule(n) ==
    IF n < 9 THEN <<1, 2, 3, 5, 8, 12, 18, 27, 41>>[n + 1] ELSE 60

\* C28: after its n-th consecutive failed or timed-out attempt (n = 0, 1,
\* ...) a proxy waits d(n) seconds with d(0) = 1 and d(n+1) = min(ceil(1.5 *
\* d(n)), 60): 1, 2, 3, 5, 8, 12, 18, 27, 41, 60, 60, ...; the delay never
\* exceeds 60, never decreases from one failure to the next, and is 1 again
\* after a successful registration.
C28_CeiledBackoff ==
    [][/\ (cev'.op = "register_failed"
           /\ failures[cev'.proxy] < MaxFailures) =>
            cev'.waited = Schedule(failures[cev'.proxy])
       /\ cev'.op = "register_failed" => cev'.waited <= 60
       /\ \A p \in Proxies :
            /\ delay'[p] <= 60
            /\ delay'[p] < delay[p] =>
                 (cev'.op = "registered" /\ cev'.proxy = p)
            /\ (cev'.op = "registered" /\ cev'.proxy = p) =>
                 (delay'[p] = 1 /\ failures'[p] = 0)]_vars

\* A proxy failed often enough to wait the longest delay.
C28_Witness ==
    /\ cev.op = "register_failed"
    /\ cev.waited = 60
    /\ failures[cev.proxy] = 11

\* An attempt of proxy p is awaited: its loop is inside wait_for(_register).
InFlight(p) == register_loop[p] \in {"registering", "abandoned"}

\* C29: a proxy issues a register request only while its token is None and
\* no attempt of it is in flight (so at most one is in flight at any time);
\* its token changes from None to a token only by the successful reply to
\* the attempt in flight, and from a token only to None; and a proxy without
\* a token and without an attempt in flight makes another attempt, unless
\* the client is closed.
C29_RegistrationStateMachine ==
    /\ [][\A p \in Proxies :
            /\ (cev'.op = "register" /\ cev'.proxy = p) =>
                 /\ proxy_token[p] = NONE
                 /\ proxy_token'[p] = NONE
                 /\ ~ InFlight(p)
                 /\ InFlight(p)'
            /\ (~ InFlight(p) /\ InFlight(p)') =>
                 (cev'.op = "register" /\ cev'.proxy = p)
            /\ (proxy_token[p] = NONE /\ proxy_token'[p] # NONE) =>
                 /\ cev'.op = "registered"
                 /\ cev'.proxy = p
                 /\ register_loop[p] = "registering"
                 /\ ~ InFlight(p)'
            /\ (proxy_token[p] # NONE /\ proxy_token'[p] # proxy_token[p]) =>
                 proxy_token'[p] = NONE]_vars
    /\ \A p \in Proxies :
         (proxy_token[p] = NONE /\ ~ InFlight(p)) ~>
           ((cev.op = "register" /\ cev.proxy = p) \/ closing)

\* A proxy that had failed to register makes a further attempt, after the
\* client's ping was answered.
C29_Witness ==
    /\ cev.op = "register"
    /\ delay[cev.proxy] > 1
    /\ proxy_token[cev.proxy] = NONE
    /\ remote.seen # 0

\* C30: a proxy's request to a domain that another proxy of the same client
\* serves is made on that proxy's on_request with the caller's domain and
\* token as source: no frame is written to the broker, and the caller gets
\* what on_request gives, its return value or a CallError (404 for a command
\* the callee does not have), the context of a command that takes one being
\* the caller's domain and token; a request to any other domain is written
\* to the broker; and a request is made only by a proxy that is registered.
C30_LocalRequestShortCircuits ==
    [][cev'.op = "request" =>
         LET p == cev'.proxy
             t == IF cev'.sent = <<>> THEN ProxyDomain(cev'.callee)
                  ELSE cev'.sent[3]
         IN  /\ proxy_token[p] # NONE
             /\ (\E q \in Proxies : ProxyDomain(q) = t) =>
                  /\ cev'.sent = <<>>
                  /\ ProxyDomain(cev'.callee) = t
                  /\ cev'.source = <<ProxyDomain(p), proxy_token[p]>>
                  /\ cev'.outcome.kind \in {"return", "CallError"}
                  /\ cev'.outcome.kind = "CallError" <=>
                       \E c \in RequestCommands \ Commands(cev'.callee) :
                         ProxyRequest(p, t, c)
                  /\ cev'.outcome.kind = "CallError" =>
                       cev'.outcome.code = 404
                  /\ (cev'.outcome.kind = "return"
                      /\ use_context(cev'.callee, "method_call")) =>
                       /\ cev'.outcome.payload[1] = ProxyDomain(p)
                       /\ cev'.outcome.payload[2] = proxy_token[p]
             /\ (~ \E q \in Proxies : ProxyDomain(q) = t) =>
                  /\ cev'.sent # <<>>
                  /\ cev'.callee = 0]_vars

\* A registered proxy called a command of the other proxy, which takes the
\* caller's context, and got its result.
C30_Witness ==
    /\ cev.op = "request"
    /\ cev.callee # 0
    /\ cev.callee # cev.proxy
    /\ cev.sent = <<>>
    /\ cev.outcome.kind = "return"
    /\ cev.outcome.payload[1] = ProxyDomain(cev.proxy)

\* C31: the request and notification frames of one peer are handed to
\* _on_request / _on_notification in the order in which they were received,
\* none being passed over: at any time the frames handed over are the first
\* of the frames received; the responses may be written in another order.
C31_HandedInArrivalOrder ==
    \A i \in Identities :
       /\ Len(handed[i]) <= Len(arrived[i])
       /\ handed[i] = SubSeq(arrived[i], 1, Len(handed[i]))
       /\ Elems(replied[i]) \subseteq
            { handed[i][k].id : k \in 1 .. Len(handed[i]) }

\* Three frames of a peer were handed over, a notification between two
\* requests, and the request received last was answered first.
C31_Witness ==
    \E i \in Identities :
       /\ Len(handed[i]) = 3
       /\ handed[i][2].type = "notification"
       /\ replied[i] = <<3, 1>>

\* C32: the reply to a forwarded request is passed on to the caller as it
\* is: the response written to the caller carries the caller's request id;
\* for a 200 reply it has the code 200 and the payload frames of the reply,
\* all of them and in their order; for an error reply it has the code and the
\* message of the reply.  (Frames after the message are not passed on, and an
\* error reply without a message is answered as an invalid reply, code 0.)
C32_ReplyForwardedVerbatim ==
    [][\A i \in Identities, k \in 0 .. MaxReqId - 1, r \in VerbatimReplies :
         (ev'.op = "request_reply" /\ Response(i, k, r[1], r[2])) =>
           /\ ev'.sent
           /\ ev'.ids = {pending[i][k].rid}
           /\ r[1] = 200 => (ev'.code = 200 /\ ev'.reply = r[2])
           /\ (r[1] # 200 /\ r[2] # <<>>) =>
                (ev'.code = r[1] /\ ev'.reply = <<r[2][1]>>)
           /\ (r[1] # 200 /\ r[2] = <<>>) => ev'.code = 0
           /\ UNCHANGED <<connections_by_domain, domains>>]_vars

\* The reply of two frames to a request that was handed to the link service
\* has been passed on to the caller.
C32_Witness ==
    /\ ev.op = "request_reply"
    /\ ev.code = 200
    /\ ev.reply = <<"y", "x">>
    /\ \E i \in Identities :
         /\ SERVICE_LINK_DOMAIN \in DOMAIN domains[i]
         /\ reqgen[i] > 0

\* C33: a notification is never answered: whether it is forwarded or
\* rejected (its source-domain is not registered by the sender: 412; there is
\* no connection for the target: 404), no response frame is written to its
\* sender; the CallError of a rejected notification ends its task and nothing
\* else: nothing is sent to any connection, the sender's Connection stays in
\* the map and open, and the registry and the domains tables stay as they are.
C33_NotificationNeverAnswered ==
    [][\A i \in Identities, d \in Domains, t \in Targets,
          ty \in NotificationTypes, xd \in XDomains, xt \in XTokens :
         (/\ ev'.op \in {"notification", "transmit_notification"}
          /\ Notification(i, ty, d, t, xd, xt)) =>
           /\ ~ ev'.sent
           /\ ev'.ids = {}
           /\ ev'.outcome.kind \in {"none", "CallError"}
           /\ ev'.outcome.kind = "CallError" <=>
                \/ d \notin DOMAIN domains[i]
                \/ /\ Lst(connections_by_domain, t) = <<>>
                   /\ Lst(connections_by_domain, SERVICE_LINK_DOMAIN) = <<>>
           /\ ev'.outcome.kind = "CallError" =>
                /\ NothingSent(i)
                /\ connections'[i] = ConnOf(i)
                /\ phase'[i] = "open"
                /\ UNCHANGED <<connections_by_domain, domains>>
           /\ ev'.outcome.kind = "none" => ev'.to # NoConn]_vars

\* A notification from a registered source-domain to a domain nobody serves
\* was rejected while the registry is not empty.
C33_Witness ==
    /\ ev.op = "notification"
    /\ ev.outcome.kind = "CallError"
    /\ ev.outcome.code = 404
    /\ ~ ev.sent
    /\ DOMAIN connections_by_domain # {}

\* The functions among the entries of a cleanup list.
Functions(list) == SelectSeq(list, LAMBDA e : e.kind = "function")

\* A closable object goes one way: once closing it stays closing, it is
\* closed only when closing, a close() of an object that is closing changes
\* nothing, and _close calls and awaits the entries it copied in their order.
OneWayLifecycle ==
    /\ [][/\ obj.closing => obj'.closing
          /\ closed => closed'
          /\ (obj.closing /\ obj'.op = "close") =>
               obj' = [obj EXCEPT !.op = "close"]
          /\ (obj.close_task = "running" /\ obj'.close_task = "running") =>
               obj.ran \o obj.todo = obj'.ran \o obj'.todo]_vars
    /\ [](closed => obj.closing)

\* C34: a closable object only goes from open to closing to closed, and when
\* it is closed, every cleanup function that was registered before close()
\* was called has run, once and in the order of registration, and every task
\* that was registered then has ended.
C34_CleanupsRunBeforeClosed ==
    closed =>
      /\ obj.closing
      /\ SelectSeq(obj.ran, LAMBDA e : e \in Elems(Functions(obj.registered)))
           = Functions(obj.registered)
      /\ \A e \in Elems(obj.registered) :
           e.kind = "task" => obj.tasks[e.name] # "running"

\* The events a log holds for one domain, in the order logged.
EventsOf(log, d) == SelectSeq(log, LAMBDA e : e[2] = d)

\* C35: for every domain, "available" and "unavailable" events alternate,
\* starting with "available": in every step the events of a domain
\* alternate, the first one is "available" exactly when the domain's list was
\* empty before the step, the last one is "available" exactly when the list
\* is non-empty after it, and a step without an event for the domain leaves
\* the list empty or leaves it non-empty.
C35_DomainEventsAlternate ==
    [][\A d \in Domains :
         LET evs == EventsOf(ev'.log, d)
             before == Lst(connections_by_domain, d) # <<>>
             after == Lst(connections_by_domain', d) # <<>>
         IN  /\ \A k \in 1 .. Len(evs) - 1 : evs[k][1] # evs[k + 1][1]
             /\ evs # <<>> => /\ (evs[1][1] = "available") = ~before
                              /\ (evs[Len(evs)][1] = "available") = after
             /\ evs = <<>> => before = after]_vars

\* The only connection of a domain registered it again: the domain was
\* withdrawn and announced in one step.
C35_Witness ==
    /\ ev.op = "register_reply"
    /\ ev.log = <<on_domain_unavailable(BOB), on_domain_available(BOB)>>
    /\ Len(Lst(connections_by_domain, BOB)) = 1

\* C36: a query command leaves the domain registry as it is, the order of the
\* queried domain's connections included, so that queries between requests
\* do not change which connection each request is forwarded to.
C36_QueryLeavesRegistry ==
    [][ev'.op = "query" => UNCHANGED <<connections_by_domain, domains>>]_vars

\* C37: every connection listed under a domain of the registry is in the
\* connection map, whatever the interleaving of registrations, replies of the
\* authentication service, closings and removals.
C37_ListedIsConnected ==
    \A d \in DOMAIN connections_by_domain :
       \A c \in Elems(connections_by_domain[d]) : connections[c[1]] = c

\* The authentication service answered the register of a connection that was
\* closing by then: the connection entered the registry while closing.
C37_Witness ==
    /\ ev.op = "register_reply"
    /\ ev.code = 200
    /\ \E i \in Identities :
         /\ phase[i] = "closing"
         /\ Listed(connections_by_domain, connections[i], BOB)
         /\ BOB \in DOMAIN issued[i]

\* C38: an outbound request is in the correlator before its reply can be
\* processed and before the connection can close: no response arrives for a
\* request whose future is not entered yet, and a connection that closes has
\* no request between its write and its entry, which the cancellation of the
\* pending requests would miss.
C38_RecordedBeforeReply ==
    [][/\ ev'.op = "stray_response" =>
            \A i \in Pair, k \in 0 .. MaxReqId - 1, r \in Replies :
               StrayResponse(i, k, r[1], r[2]) => k \notin DOMAIN writing[i]
       /\ \A i \in Identities :
            (phase[i] = "open" /\ phase'[i] = "closing") =>
              writing[i] = EmptyMap]_vars

\* C39: a transmit, command or notification, whose target-domain has no
\* local connection is never relayed to a connection that serves the link
\* service: nothing is written to any connection for it.
C39_TransmitStaysLocal ==
    [][ev'.op \in {"transmit", "transmit_notification"} =>
         \A i \in Pair : \A d \in RouteServes(i), t \in Targets,
            xd \in XDomains, xt \in XTokens :
            (/\ Lst(connections_by_domain, t) = <<>>
             /\ \/ Transmit(i, d, t, xd, xt)
                \/ Notification(i, "transmit", d, t, xd, xt))
            => ev'.to = NoConn]_vars

\* The registrations: every connection's table of domains and tokens, and
\* the connections listed under every domain.
Registrations ==
    <<domains, [d \in Domains |-> Elems(Lst(connections_by_domain, d))]>>

\* C40: a register that fails (401 from the local verifier, 503, an error
\* reply or a malformed reply of the authentication service, the
\* cancellation of the wait for it) leaves the registrations as they were:
\* those of the calling connection, a previous registration and token for
\* the same domain included, and those of every other connection.
C40_FailedRegisterChangesNothing ==
    [][(/\ ev'.op \in {"register", "register_reply", "close"}
        /\ ev'.sent
        /\ ev'.code # 200)
       => /\ Registrations' = Registrations
          /\ issued' = issued]_vars

\* The user holds a token for its domain and its next register was refused
\* by the authentication service, which is still registered itself.
C40_Witness ==
    /\ ev.op = "register_reply"
    /\ ev.code = 401
    /\ BOB \in DOMAIN domains[2]
    /\ domains[2][BOB] \in {"tok1", "tok2"}
    /\ Listed(connections_by_domain, connections[1],
              SERVICE_AUTHENTICATION_DOMAIN)

====
